---- MODULE Spec2Model ----
(***************************************************************************)
(* Model of the host-side orchestration layer of the repository:           *)
(*   host_agent/host_manager.py          ADKHostManager                    *)
(*   host_agent/remote_agent_connections.py  RemoteAgentConnections        *)
(*   host_agent/host_agent.py            HostAgent                         *)
(*   agents/*/agent_executor.py          the remote agent executors        *)
(*                                                                         *)
(* Python objects are references.  Artifact objects live in `heap` and are *)
(* referred to by their index, so that an artifact stored in two places    *)
(* (scratch list and finished list, or twice in one list) is one object.   *)
(* Messages are immutable and are represented by their message id; the     *)
(* absent message (None) is NoMessage, a message whose id is the empty     *)
(* string is EmptyId.  A history of None and an empty history are both     *)
(* <<>> (the code treats them alike: `if task.history`).                   *)
(***************************************************************************)
EXTENDS Integers, Sequences, FiniteSets, TLC

VARIABLES
    tasks,                \* ADKHostManager._tasks: list[Task]
    artifact_chunks,      \* ADKHostManager._artifact_chunks: artifact id -> list of refs
    heap,                 \* the Artifact objects, by reference
    events,               \* ADKHostManager._events: dict in insertion order
    task_map,             \* ADKHostManager._task_map: message id -> task id
    conversations,        \* ADKHostManager._conversations
    messages,             \* ADKHostManager._messages
    pending_message_ids,  \* ADKHostManager._pending_message_ids
    sessions,             \* the session service: session id -> session state
    procs,                \* one record per process_message or execute call in flight
    conns,                \* one record per RemoteAgentConnections.send_message call
    trace,                \* history: the operations applied so far, with their outcome
    cancels,              \* outcome of each executor's cancel, per task id
    agents,               \* ADKHostManager._agents: list[AgentCard]
    host_agent            \* HostAgent: its cards and remote_agent_connections

vars == <<tasks, artifact_chunks, heap, events, task_map, conversations, messages,
          pending_message_ids, sessions, procs, conns, trace, cancels, agents,
          host_agent>>

(***************************************************************************)
(* Bounds of the model.                                                    *)
(***************************************************************************)
MaxStatusEvents == 3
MaxArtifactEvents == 3
MaxStreamEvents == 3
MaxSanitizeSteps == 2
MaxAdkEvents == 2
MaxParts == 2
MaxLogEvents == 3
MaxRegistryEvents == 3
MaxRunnerEvents == 2
MaxRegistrations == 3
MaxPendingSteps == 3

TaskIds == {"T1", "T2"}
ArtifactIds == {"Art1", "Art2"}
ContextIds == {"C1", "C2"}
MessageIds == {"m1", "m2"}
AgentName == "A"

\* None, as a message, a task id or a context id; str(None) is "None"
NoMessage == "<none>"
NoTask == "<none>"
NoContext == "<none>"
EmptyId == ""
StrNone == "None"

(***************************************************************************)
(* a2a.types.TaskState                                                     *)
(***************************************************************************)
TaskStates == {"submitted", "working", "input-required", "completed",
               "canceled", "failed", "unknown"}
TerminalStates == {"completed", "canceled", "failed"}
NonTerminalStates == {"submitted", "working", "input-required"}

(***************************************************************************)
(* Generic helpers.                                                        *)
(***************************************************************************)
Range(s) == {s[i] : i \in 1..Len(s)}

Last(s) == s[Len(s)]

Front(s) == SubSeq(s, 1, Len(s) - 1)

\* index of the first element of s that satisfies Test, 0 when there is none
\* (next(filter(...), None))
FirstIndex(s, Test(_)) ==
    IF \E i \in 1..Len(s) : Test(s[i])
    THEN CHOOSE i \in 1..Len(s) : Test(s[i]) /\ \A j \in 1..(i - 1) : ~Test(s[j])
    ELSE 0

\* `if x` for an optional string: None and "" are false
Truthy(x) == x # "<none>" /\ x # ""

\* the payload carried by the k-th update event of a run: two parts that no
\* other event carries, so that order, loss and duplication are observable
PartsOf(k) == <<2 * k - 1, 2 * k>>

(***************************************************************************)
(* The update events (TaskCallbackArg).  One record shape for the three    *)
(* variants; the fields a variant does not have hold a default.            *)
(***************************************************************************)
StatusUpdate(t, c, s, m, f) ==
    [kind |-> "status-update", taskId |-> t, contextId |-> c, state |-> s,
     message |-> m, final |-> f, artifactId |-> "", parts |-> <<>>,
     append |-> FALSE, lastChunk |-> "None"]

ArtifactUpdate(t, c, a, p, app, lc) ==
    [kind |-> "artifact-update", taskId |-> t, contextId |-> c, state |-> "",
     message |-> NoMessage, final |-> FALSE, artifactId |-> a, parts |-> p,
     append |-> app, lastChunk |-> lc]

\* the host manager's state that task_callback reads and writes, as one value
Manager ==
    [tasks |-> tasks, artifact_chunks |-> artifact_chunks, heap |-> heap,
     events |-> events, task_map |-> task_map, raised |-> ""]

\* a Task object handed to the callback whole (the third variant)
TaskEvent(t, c, s, m) ==
    [kind |-> "task", taskId |-> t, contextId |-> c, state |-> s,
     message |-> m, final |-> FALSE, artifactId |-> "", parts |-> <<>>,
     append |-> FALSE, lastChunk |-> "None"]

(***************************************************************************)
(* ADKHostManager: the task registry.  Each operation takes the manager    *)
(* state m and returns the manager state after it; m.raised names the      *)
(* exception that left the operation, "" when it returned.                 *)
(***************************************************************************)

\* the event put in front of the log instead of at its end
add_event_front(evs, ev) == <<ev>> \o evs

\* add_event: self._events[event.id] = event.  A dict keeps the position of a
\* key that is assigned again.
add_event(evs, ev) ==
    LET i == FirstIndex(evs, LAMBDA x : x.id = ev.id)
    IN  IF i = 0 THEN Append(evs, ev) ELSE [evs EXCEPT ![i] = ev]

\* str(uuid.uuid4()): an id that no logged event has
FreshEventId(evs) ==
    <<"uuid", 1 + Cardinality({i \in 1..Len(evs) : evs[i].id[1] = "uuid"})>>

\* emit_event: one log entry per callback, authored by the agent
emit_event(m, e, ref, card) ==
    LET content ==
            IF e.kind = "status-update" \/ e.kind = "task"
            THEN IF e.message # NoMessage
                 THEN [messageId |-> e.message, taskId |-> e.taskId, parts |-> <<>>,
                       text |-> ""]
                 ELSE [messageId |-> "uuid", taskId |-> e.taskId, parts |-> <<>>,
                       text |-> e.state]
            ELSE [messageId |-> "uuid", taskId |-> e.taskId,
                  parts |-> m.heap[ref].parts, text |-> ""]
    IN  [m EXCEPT !.events =
            add_event(@, [id |-> FreshEventId(@), actor |-> card,
                          content |-> content])]

\* attach_message_to_task
attach_message_to_task(m, message, task_id) ==
    IF message # NoMessage
    THEN [m EXCEPT !.task_map =
            [k \in DOMAIN @ \cup {message} |-> IF k = message THEN task_id ELSE @[k]]]
    ELSE m

\* insert_message_history without the message-id test
insert_message_history_nodedup(task, message) ==
    IF message = NoMessage \/ message = EmptyId \/ task.message = NoMessage
    THEN task.history
    ELSE Append(task.history, task.message)

\* insert_message_history: the task's history after the call.  The caller has
\* already stored the event's status in the task, so task.status.message is
\* task.message here.
insert_message_history(task, message) ==
    IF message = NoMessage THEN task.history
    ELSE IF message = EmptyId THEN task.history
    ELSE IF task.history # <<>> /\ task.message # NoMessage
            /\ task.message \notin Range(task.history)
         THEN Append(task.history, task.message)
    ELSE IF task.history = <<>> /\ task.message # NoMessage
         THEN <<task.message>>
    ELSE task.history

\* the status recorded only while the task is still at its initial state
record_status_once(task, e) ==
    IF task.state = "submitted"
    THEN [task EXCEPT !.state = e.state, !.message = e.message]
    ELSE task

\* current_task.status = task.status (task_callback, the status-update branch)
record_status(task, e) == [task EXCEPT !.state = e.state, !.message = e.message]

\* add_task
add_task(tsks, task) == Append(tsks, task)

\* update_task: replaces the first task of that id, no-op when there is none
update_task(tsks, task) ==
    LET i == FirstIndex(tsks, LAMBDA t : t.id = task.id)
    IN  IF i = 0 THEN tsks ELSE [tsks EXCEPT ![i] = task]

\* the Task that add_or_get_task creates for an unseen id
NewTask(id, c) ==
    [id |-> id, contextId |-> c, state |-> "submitted", message |-> NoMessage,
     artifacts |-> <<>>, history |-> <<>>]

\* a task created for every event, whether its id is known or not
add_or_get_task_always(tsks, e) == add_task(tsks, NewTask(e.taskId, e.contextId))

\* add_or_get_task: the registry after the call (task ids of the model are
\* never empty, so no id is generated)
add_or_get_task(tsks, e) ==
    IF FirstIndex(tsks, LAMBDA t : t.id = e.taskId) = 0
    THEN add_task(tsks, NewTask(e.taskId, e.contextId))
    ELSE tsks

\* the task add_or_get_task returns: the first one of that id
current_task(tsks, id) == tsks[FirstIndex(tsks, LAMBDA t : t.id = id)]

\* the new chunk's parts put in front of the fragment's
extend_parts_front(parts, chunk) == chunk \o parts

\* current_temp_artifact.parts.extend(artifact.parts)
extend_parts(parts, chunk) == parts \o chunk

\* lines 412-418: the chunk joined to the most recently stashed fragment of
\* its artifact id; with last_chunk the fragment moves to the finished list
append_to_fragment(m, id, e, ref) ==
    LET task == current_task(m.tasks, id)
        a == e.artifactId
        tmp == Last(m.artifact_chunks[a])
        m1 == [m EXCEPT !.heap[tmp].parts = extend_parts(@, m.heap[ref].parts)]
    IN  IF e.lastChunk = "True"
        THEN [m1 EXCEPT
                !.tasks = update_task(@, [task EXCEPT !.artifacts = Append(@, tmp)]),
                !.artifact_chunks[a] = Front(@)]
        ELSE m1

\* an append chunk without a fragment dropped without a word
append_chunk_dropping(m, id, e, ref) ==
    IF e.artifactId \notin DOMAIN m.artifact_chunks THEN m
    ELSE IF m.artifact_chunks[e.artifactId] = <<>> THEN m
    ELSE append_to_fragment(m, id, e, ref)

\* lines 408-418, the append branch.  `self._artifact_chunks[id][-1]` raises
\* KeyError when the id was never stashed and IndexError when its list is
\* empty.
append_chunk(m, id, e, ref) ==
    IF e.artifactId \notin DOMAIN m.artifact_chunks THEN [m EXCEPT !.raised = "KeyError"]
    ELSE IF m.artifact_chunks[e.artifactId] = <<>> THEN [m EXCEPT !.raised = "IndexError"]
    ELSE append_to_fragment(m, id, e, ref)

\* process_artifact_event that also marks the task as working again
process_artifact_event_working(m, id, e, ref) ==
    LET task == [current_task(m.tasks, id) EXCEPT !.state = "working"]
        m1 == [m EXCEPT !.tasks = update_task(@, task)]
        a == e.artifactId
        chunks == m.artifact_chunks
    IN  IF ~e.append
        THEN IF e.lastChunk = "None" \/ e.lastChunk = "True"
             THEN [m EXCEPT !.tasks =
                     update_task(@, [task EXCEPT !.artifacts = Append(@, ref)])]
             ELSE [m1 EXCEPT !.artifact_chunks =
                     [k \in DOMAIN chunks \cup {a} |->
                        IF k = a
                        THEN Append(IF a \in DOMAIN chunks THEN chunks[a] ELSE <<>>, ref)
                        ELSE chunks[k]]]
        ELSE append_chunk(m1, id, e, ref)

\* process_artifact_event on the task of that id; ref is the event's Artifact
\* object
process_artifact_event(m, id, e, ref) ==
    LET task == current_task(m.tasks, id)
        a == e.artifactId
        chunks == m.artifact_chunks
    IN  IF ~e.append
        THEN IF e.lastChunk = "None" \/ e.lastChunk = "True"
             THEN [m EXCEPT !.tasks =
                     update_task(@, [task EXCEPT !.artifacts = Append(@, ref)])]
             ELSE [m EXCEPT !.artifact_chunks =
                     [k \in DOMAIN chunks \cup {a} |->
                        IF k = a
                        THEN Append(IF a \in DOMAIN chunks THEN chunks[a] ELSE <<>>, ref)
                        ELSE chunks[k]]]
        ELSE append_chunk(m, id, e, ref)

\* task_callback(task, agent_card); ref is the event's Artifact object (0 when
\* the event carries none), card the agent's name
task_callback(m, e, ref, card) ==
    LET m1 == emit_event(m, e, ref, card)
    IN  IF e.kind = "status-update"
        THEN LET m2 == [m1 EXCEPT !.tasks = add_or_get_task(@, e)]
                 cur == record_status(current_task(m2.tasks, e.taskId), e)
                 m3 == attach_message_to_task(m2, e.message, cur.id)
                 cur2 == [cur EXCEPT !.history = insert_message_history(cur, e.message)]
             IN  [m3 EXCEPT !.tasks = update_task(@, cur2)]
        ELSE IF e.kind = "artifact-update"
        THEN LET m2 == [m1 EXCEPT !.tasks = add_or_get_task(@, e)]
                 m3 == process_artifact_event(m2, e.taskId, e, ref)
             IN  IF m3.raised # "" THEN m3
                 ELSE [m3 EXCEPT !.tasks = update_task(@, current_task(@, e.taskId))]
        ELSE LET given == [id |-> e.taskId, contextId |-> e.contextId, state |-> e.state,
                           message |-> e.message, artifacts |-> <<>>, history |-> <<>>]
                 m2 == attach_message_to_task(m1, e.message, e.taskId)
             IN  IF FirstIndex(m.tasks, LAMBDA t : t.id = e.taskId) = 0
                 THEN [m2 EXCEPT !.tasks = add_task(@, given)]
                 ELSE [m2 EXCEPT !.tasks = update_task(@, given)]

\* the Artifact object an update event carries, allocated when it is received
Alloc(m, e) ==
    IF e.kind = "artifact-update"
    THEN [m EXCEPT !.heap = Append(@, [artifactId |-> e.artifactId, parts |-> e.parts])]
    ELSE m

RefOf(m, e) == IF e.kind = "artifact-update" THEN Len(m.heap) + 1 ELSE 0

(***************************************************************************)
(* Views of the registry by value.                                         *)
(***************************************************************************)
HasTask(id) == \E i \in 1..Len(tasks) : tasks[i].id = id

TaskOf(id) == current_task(tasks, id)

\* the finished artifacts of a task: <<[artifactId, parts], ...>>
ArtifactsOf(task) == [i \in 1..Len(task.artifacts) |-> heap[task.artifacts[i]]]

\* the registry with every artifact reference replaced by its value
TasksByValue(tsks, hp) ==
    [i \in 1..Len(tsks) |->
        [tsks[i] EXCEPT !.artifacts = [j \in 1..Len(@) |-> hp[@[j]]]]]

\* the scratch buffer with every reference replaced by its value
ChunksByValue(chunks, hp) ==
    [k \in DOMAIN chunks |-> [j \in 1..Len(chunks[k]) |-> hp[chunks[k][j]]]]

(***************************************************************************)
(* The initial state: ADKHostManager.__init__                              *)
(***************************************************************************)
EmptyFun == [x \in {} |-> x]

\* the task registry, the scratch buffer, the event log, the message map and
\* the agent list start empty, and so do the host agent's cards and connections
InitRegistry ==
    /\ tasks = <<>>
    /\ artifact_chunks = EmptyFun
    /\ heap = <<>>
    /\ events = <<>>
    /\ task_map = EmptyFun
    /\ trace = <<>>
    /\ agents = <<>>
    /\ host_agent = [cards |-> EmptyFun, remote_agent_connections |-> EmptyFun]

\* no conversation, no message, nothing pending
InitConversations ==
    /\ conversations = <<>>
    /\ messages = <<>>
    /\ pending_message_ids = <<>>
    /\ sessions = EmptyFun

Init ==
    /\ InitRegistry
    /\ InitConversations
    /\ procs = EmptyFun
    /\ conns = EmptyFun
    /\ cancels = EmptyFun

\* every task belongs to one conversation: its events carry that context id
ContextOf(t) == IF t = "T1" THEN "C1" ELSE "C2"

(***************************************************************************)
(* task_callback called with one update event (a fresh event object).      *)
(***************************************************************************)
TaskCallback(e) ==
    LET m0 == Alloc(Manager, e)
        m == task_callback(m0, e, RefOf(Manager, e), AgentName)
    IN  /\ tasks' = m.tasks
        /\ artifact_chunks' = m.artifact_chunks
        /\ heap' = m.heap
        /\ events' = m.events
        /\ task_map' = m.task_map
        /\ trace' = Append(trace, [op |-> "task_callback", event |-> e,
                                   raised |-> m.raised])
        /\ UNCHANGED <<conversations, messages, pending_message_ids, sessions,
                       procs, conns, cancels, agents, host_agent>>

\* the StatusUpdate events of the model: every state and every kind of status
\* message for task T1, and two events of another task that interleave
StatusEvents ==
    {StatusUpdate("T1", ContextOf("T1"), s, m, s \in TerminalStates) :
        s \in TaskStates, m \in {NoMessage, EmptyId} \cup MessageIds}
    \cup {StatusUpdate("T2", ContextOf("T2"), s, "m1", s \in TerminalStates) :
        s \in {"working", "completed"}}

\* a complete, self-contained artifact as the k-th event of a run
WholeArtifact(t, k) == ArtifactUpdate(t, ContextOf(t), "Art1", PartsOf(k), FALSE, "True")

\* the ArtifactUpdate events the k-th event of a run can be
ArtifactEvents(k) ==
    {ArtifactUpdate(t, ContextOf(t), a, PartsOf(k), app, lc) :
        t \in TaskIds, a \in ArtifactIds, app \in BOOLEAN,
        lc \in {"None", "True", "False"}}

\* the registry driven by status updates, and by whole artifacts of task T1
NextStatus ==
    \E e \in StatusEvents \cup {WholeArtifact("T1", Len(trace) + 1)} :
        Len(trace) < MaxStatusEvents /\ TaskCallback(e)

SpecStatus == Init /\ [][NextStatus]_vars

\* the registry driven by artifact updates, and by the status updates that
\* start and complete a task
NextArtifact ==
    \E e \in ArtifactEvents(Len(trace) + 1) \cup
              {StatusUpdate(t, ContextOf(t), s, "m1", s \in TerminalStates) :
                  t \in TaskIds, s \in {"working", "completed"}} :
        Len(trace) < MaxArtifactEvents /\ TaskCallback(e)

SpecArtifact == Init /\ [][NextArtifact]_vars

\* the events of every variant that the k-th call of task_callback can be
\* given, for either task: status updates without and with a message, a whole
\* artifact, the fragments of a chunked one, and a Task object
RegistryEvents(k) ==
    UNION {{StatusUpdate(t, ContextOf(t), "working", NoMessage, FALSE),
            StatusUpdate(t, ContextOf(t), "completed", "m1", TRUE),
            ArtifactUpdate(t, ContextOf(t), "Art1", PartsOf(k), FALSE, "None"),
            ArtifactUpdate(t, ContextOf(t), "Art1", PartsOf(k), FALSE, "False"),
            ArtifactUpdate(t, ContextOf(t), "Art1", PartsOf(k), TRUE, "False"),
            ArtifactUpdate(t, ContextOf(t), "Art1", PartsOf(k), TRUE, "True"),
            TaskEvent(t, ContextOf(t), "working", "m2")} : t \in TaskIds}

\* the registry driven by task_callback with events of all three variants
NextRegistry ==
    \E e \in RegistryEvents(Len(trace) + 1) :
        Len(trace) < MaxRegistryEvents /\ TaskCallback(e)

SpecRegistry == Init /\ [][NextRegistry]_vars

(***************************************************************************)
(* RemoteAgentConnections.send_message: one call per remote agent.  The    *)
(* remote agent decides what it answers, so every response is an input.    *)
(* conns[c].task is the local `task` (the id of the registry task the last *)
(* callback returned), conns[c].result what the call returned.             *)
(***************************************************************************)
Agents == {"A", "B"}

\* the task a remote agent works on
TaskFor(c) == IF c = "A" THEN "T1" ELSE "T2"

NoResult == [kind |-> "none", role |-> "", text |-> "", taskId |-> NoTask]

MessageResult(role, text) ==
    [kind |-> "message", role |-> role, text |-> text, taskId |-> NoTask]

TaskResult(id) == [kind |-> "task", role |-> "", text |-> "", taskId |-> id]

\* the ToolContext of a HostAgent.send_message call: the session state it
\* reads and writes, its actions, and how the call ended ("running" until then)
ToolContext(agent_name) ==
    [agent |-> agent_name, session_active |-> TRUE, task_id |-> NoTask,
     context_id |-> NoContext, escalate |-> FALSE, skip_summarization |-> FALSE,
     outcome |-> "running"]

\* the Message of a MessageSendParams request, by its ids
Request(message_id, context_id, task_id) ==
    [message_id |-> message_id, context_id |-> context_id, task_id |-> task_id]

NoRequest == Request(NoMessage, NoContext, NoTask)

\* the states that end the session (host_agent.py, lines 212-217)
SessionEnds == {"completed", "canceled", "failed", "unknown"}

\* escalation signalled for every state that leaves the task open
escalates_for_open(task_state) == task_state \in {"input-required", "working"}

\* host_agent.py, line 224
escalates_for(task_state) == task_state = "input-required"

\* an error raised for a failed task only
raises_for_failed(task_state) == task_state = "failed"

\* host_agent.py, lines 229-235
raises_for(task_state) == task_state \in {"canceled", "failed"}

\* HostAgent.send_message from line 202 on: what it does with the response of
\* client.send_message.  A Task response is the registry's own Task object,
\* so its state is read from the registry tsks.
HostAgent_send_message(tsks, response, tool_context) ==
    IF response.kind = "none"
    THEN [tool_context EXCEPT !.outcome = "No response came"]
    ELSE IF response.kind = "task"
    THEN LET task == current_task(tsks, response.taskId)
             task_state == task.state
         IN  [tool_context EXCEPT
                !.session_active = task_state \notin SessionEnds,
                !.context_id = IF Truthy(task.contextId) THEN task.contextId ELSE @,
                !.task_id = task.id,
                !.skip_summarization = IF escalates_for(task_state) THEN TRUE ELSE @,
                !.escalate = IF escalates_for(task_state) THEN TRUE ELSE @,
                !.outcome = IF ~escalates_for(task_state) /\ raises_for(task_state)
                            THEN "ValueError" ELSE "returned text"]
    ELSE [tool_context EXCEPT !.outcome = "returned message"]

\* lines 63-68 of send_message: `if task_callback and event: task =
\* task_callback(event, self.card)` stands there twice, so every update event
\* is applied twice unless the first application raises
callbacks(m, e, ref, card) ==
    LET m1 == task_callback(m, e, ref, card)
    IN  IF m1.raised # "" THEN m1 ELSE task_callback(m1, e, ref, card)

InitStream ==
    /\ InitRegistry
    /\ InitConversations
    /\ procs = EmptyFun
    /\ cancels = EmptyFun
    /\ \E f \in [Agents -> BOOLEAN] :
          conns = [c \in Agents |->
                     [streaming |-> f[c], pc |-> "open", task |-> NoTask,
                      result |-> NoResult, tool_context |-> ToolContext(c),
                      caller |-> "", request |-> NoRequest]]

SetManager(m) ==
    /\ tasks' = m.tasks
    /\ artifact_chunks' = m.artifact_chunks
    /\ heap' = m.heap
    /\ events' = m.events
    /\ task_map' = m.task_map

\* tool_context.state is the state of the caller's session: the ids that
\* HostAgent.send_message saves in it for a Task response (lines 218-222).  A
\* call without caller has no session.
SaveState(c, r, tsks) ==
    LET p == conns[c].caller
        saved == HostAgent_send_message(tsks, r, conns[c].tool_context)
    IN  IF p = "" \/ r.kind # "task" THEN sessions
        ELSE [sessions EXCEPT ![procs[p].context_id] =
                 [@ EXCEPT !.task_id = saved.task_id, !.context_id = saved.context_id]]

\* client.send_message returns r and HostAgent.send_message runs to its end
\* on the registry tsks
Returns(c, r, tsks) ==
    /\ conns' = [conns EXCEPT ![c].pc = "returned", ![c].result = r,
                              ![c].tool_context = HostAgent_send_message(tsks, r, @)]
    /\ sessions' = SaveState(c, r, tsks)

Received(c, kind, e, raised) ==
    trace' = Append(trace, [op |-> kind, conn |-> c, event |-> e, raised |-> raised])

NoEvent == StatusUpdate(NoTask, "", "", NoMessage, FALSE)

\* a JSONRPCErrorResponse, by its error.message (None, empty or a text)
ErrorResponse(error_message) ==
    [kind |-> "error", taskId |-> NoTask, contextId |-> "", state |-> "",
     message |-> error_message, final |-> FALSE, artifactId |-> "", parts |-> <<>>,
     append |-> FALSE, lastChunk |-> "None"]

ErrorMessages == {NoMessage, "", "boom"}

\* the text of the synthetic message left empty whatever the error says
error_text_blank(error_message) == ""

\* lines 51 and 82: text=error_message if error_message else ""
error_text(error_message) == IF Truthy(error_message) THEN error_message ELSE ""

\* the call of agent c is in its loop (streaming) or awaits its one response
Open(c, streaming) ==
    /\ conns[c].streaming = streaming
    /\ conns[c].pc = "open"
    /\ Len(trace) < MaxStreamEvents

\* streaming, lines 45-57: an error response ends the call with a synthetic
\* agent message that carries the error text
StreamError(c) ==
    /\ Open(c, TRUE)
    /\ \E error_message \in ErrorMessages :
          /\ Returns(c, MessageResult("agent", error_text(error_message)), tasks)
          /\ Received(c, "error", ErrorResponse(error_message), "")
    /\ UNCHANGED <<tasks, artifact_chunks, heap, events, task_map, conversations,
                   messages, pending_message_ids, procs, cancels,
                   agents, host_agent>>

\* streaming, lines 59-61: a Message ends the interaction
StreamMessage(c) ==
    /\ Open(c, TRUE)
    /\ Returns(c, MessageResult("agent", "reply"), tasks)
    /\ Received(c, "message", NoEvent, "")
    /\ UNCHANGED <<tasks, artifact_chunks, heap, events, task_map, conversations,
                   messages, pending_message_ids, procs, cancels,
                   agents, host_agent>>

\* the loop without its break: a final status update is applied and the call
\* goes on reading the stream
StreamUpdateNoBreak(c, e) ==
    /\ Open(c, TRUE)
    /\ LET m == callbacks(Alloc(Manager, e), e, RefOf(Manager, e), c)
       IN  /\ SetManager(m)
           /\ Received(c, "update", e, m.raised)
           /\ conns' = [conns EXCEPT
                  ![c].pc = IF m.raised # "" THEN "raised" ELSE "open",
                  ![c].task = IF m.raised # "" THEN @ ELSE e.taskId,
                  ![c].tool_context =
                      IF m.raised # "" THEN [@ EXCEPT !.outcome = m.raised] ELSE @]
    /\ UNCHANGED <<conversations, messages, pending_message_ids, sessions, procs,
                   cancels, agents, host_agent>>

\* streaming, lines 63-71: an update event goes through the callback; a final
\* status update ends the loop and the call returns `task`
StreamUpdate(c, e) ==
    /\ Open(c, TRUE)
    /\ LET m == callbacks(Alloc(Manager, e), e, RefOf(Manager, e), c)
       IN  /\ SetManager(m)
           /\ Received(c, "update", e, m.raised)
           /\ conns' = [conns EXCEPT
                  ![c].pc = IF m.raised # "" THEN "raised"
                            ELSE IF e.kind = "status-update" /\ e.final THEN "returned"
                            ELSE "open",
                  ![c].task = IF m.raised # "" THEN @ ELSE e.taskId,
                  ![c].result = IF m.raised = "" /\ e.kind = "status-update" /\ e.final
                                THEN TaskResult(e.taskId) ELSE @,
                  ![c].tool_context =
                      IF m.raised # "" THEN [@ EXCEPT !.outcome = m.raised]
                      ELSE IF e.kind = "status-update" /\ e.final
                      THEN HostAgent_send_message(m.tasks, TaskResult(e.taskId), @)
                      ELSE @]
           /\ sessions' = IF m.raised = "" /\ e.kind = "status-update" /\ e.final
                          THEN SaveState(c, TaskResult(e.taskId), m.tasks)
                          ELSE sessions
    /\ UNCHANGED <<conversations, messages, pending_message_ids, procs, cancels,
                   agents, host_agent>>

\* streaming, line 72: the stream ends without a final status update
StreamEnd(c) ==
    /\ Open(c, TRUE)
    /\ Returns(c, IF conns[c].task = NoTask THEN NoResult ELSE TaskResult(conns[c].task),
               tasks)
    /\ Received(c, "end", NoEvent, "")
    /\ UNCHANGED <<tasks, artifact_chunks, heap, events, task_map, conversations,
                   messages, pending_message_ids, procs, cancels,
                   agents, host_agent>>

\* non-streaming, lines 78-86
SendError(c) ==
    /\ Open(c, FALSE)
    /\ \E error_message \in ErrorMessages :
          /\ Returns(c, MessageResult("agent", error_text(error_message)), tasks)
          /\ Received(c, "error", ErrorResponse(error_message), "")
    /\ UNCHANGED <<tasks, artifact_chunks, heap, events, task_map, conversations,
                   messages, pending_message_ids, procs, cancels,
                   agents, host_agent>>

\* the single response handed to the callback before it is looked at: a
\* Message is logged as if it were a Task
SendMessageLogged(c) ==
    /\ Open(c, FALSE)
    /\ Returns(c, MessageResult("agent", "reply"), tasks)
    /\ Received(c, "message", NoEvent, "")
    /\ events' = add_event(events, [id |-> FreshEventId(events), actor |-> c,
                                    content |-> [messageId |-> "reply", taskId |-> NoTask,
                                                 parts |-> <<>>, text |-> ""]])
    /\ UNCHANGED <<tasks, artifact_chunks, heap, task_map, conversations,
                   messages, pending_message_ids, procs, cancels,
                   agents, host_agent>>

\* non-streaming, lines 88-89
SendMessage(c) ==
    /\ Open(c, FALSE)
    /\ Returns(c, MessageResult("agent", "reply"), tasks)
    /\ Received(c, "message", NoEvent, "")
    /\ UNCHANGED <<tasks, artifact_chunks, heap, events, task_map, conversations,
                   messages, pending_message_ids, procs, cancels,
                   agents, host_agent>>

\* non-streaming, lines 91-93: the result is a Task; it goes through the
\* callback once and is returned
SendResult(c, e) ==
    /\ Open(c, FALSE)
    /\ LET m == task_callback(Manager, e, 0, c)
       IN  /\ SetManager(m)
           /\ Received(c, "result", e, m.raised)
           /\ Returns(c, TaskResult(e.taskId), m.tasks)
    /\ UNCHANGED <<conversations, messages, pending_message_ids, procs,
                   cancels, agents, host_agent>>

\* the update events the remote agent c can stream as the k-th response.  Agent
\* A streams every shape of event; agent B the events of one chunked artifact
\* and of a task that starts and completes.
StreamEvents(c, k) ==
    LET t == TaskFor(c)
    IN  IF c = "A"
        THEN {StatusUpdate(t, ContextOf(t), s, NoMessage, f) :
                 s \in {"working", "completed", "failed"}, f \in BOOLEAN}
             \cup {ArtifactUpdate(t, ContextOf(t), a, PartsOf(k), app, lc) :
                 a \in ArtifactIds, app \in BOOLEAN, lc \in {"None", "True", "False"}}
             \cup {TaskEvent(t, ContextOf(t), "submitted", NoMessage)}
        ELSE {StatusUpdate(t, ContextOf(t), "working", NoMessage, FALSE),
              StatusUpdate(t, ContextOf(t), "completed", NoMessage, TRUE),
              ArtifactUpdate(t, ContextOf(t), "Art1", PartsOf(k), FALSE, "False"),
              ArtifactUpdate(t, ContextOf(t), "Art1", PartsOf(k), TRUE, "True")}

\* the Task objects the remote agent c can answer a non-streaming call with
ResultTasks(c) ==
    {TaskEvent(TaskFor(c), ContextOf(TaskFor(c)), s, NoMessage) :
        s \in {"completed", "input-required"}}

NextStream ==
    \E c \in Agents :
        \/ StreamError(c)
        \/ StreamMessage(c)
        \/ \E e \in StreamEvents(c, Len(trace) + 1) : StreamUpdate(c, e)
        \/ StreamEnd(c)
        \/ SendError(c)
        \/ SendMessage(c)
        \/ \E e \in ResultTasks(c) : SendResult(c, e)

SpecStream == InitStream /\ [][NextStream]_vars

(***************************************************************************)
(* HostAgent.send_message around the call of a remote agent: the remote    *)
(* agents report how their task went, with status messages.                *)
(***************************************************************************)

\* the status updates the remote agent c can stream: working without or with
\* a status message, then one final update in any other state
DispatchEvents(c) ==
    LET t == TaskFor(c)
    IN  IF c = "A"
        THEN {StatusUpdate(t, ContextOf(t), "working", m, FALSE) : m \in {NoMessage, "m1"}}
             \cup {StatusUpdate(t, ContextOf(t), s, "m2", TRUE) :
                     s \in {"input-required", "completed", "canceled", "failed"}}
        ELSE {StatusUpdate(t, ContextOf(t), "working", "m1", FALSE),
              StatusUpdate(t, ContextOf(t), "working", NoMessage, TRUE),
              StatusUpdate(t, ContextOf(t), "failed", "m2", TRUE)}

\* the Task objects the remote agent c can answer a non-streaming call with
DispatchResults(c) ==
    {TaskEvent(TaskFor(c), ContextOf(TaskFor(c)), s, NoMessage) :
        s \in IF c = "A"
              THEN {"working", "input-required", "completed", "canceled", "failed"}
              ELSE {"completed", "failed"}}

NextDispatch ==
    \E c \in Agents :
        \/ StreamError(c)
        \/ StreamMessage(c)
        \/ \E e \in DispatchEvents(c) : StreamUpdate(c, e)
        \/ StreamEnd(c)
        \/ SendError(c)
        \/ SendMessage(c)
        \/ \E e \in DispatchResults(c) : SendResult(c, e)

SpecDispatch == InitStream /\ [][NextDispatch]_vars

(***************************************************************************)
(* ADKHostManager.sanitize_message.  A Message of a conversation is        *)
(* [messageId, role, contextId, taskId]; a Conversation is                 *)
(* [conversation_id, messages].                                            *)
(***************************************************************************)
Msg(id, role, c, t) == [messageId |-> id, role |-> role, contextId |-> c, taskId |-> t]

\* get_conversation: the first conversation of that id, 0 when there is none
get_conversation(convs, conversation_id) ==
    IF ~Truthy(conversation_id) THEN 0
    ELSE FirstIndex(convs, LAMBDA c : c.conversation_id = conversation_id)

\* task_still_open with completed taken for an open state
task_still_open_wide(tsks, task_id) ==
    /\ FirstIndex(tsks, LAMBDA t : t.id = task_id) # 0
    /\ current_task(tsks, task_id).state
          \in {"submitted", "working", "input-required", "completed"}

\* task_still_open(next(filter(lambda x: x and x.id == task_id, self._tasks), None))
task_still_open(tsks, task_id) ==
    /\ FirstIndex(tsks, LAMBDA t : t.id = task_id) # 0
    /\ current_task(tsks, task_id).state \in {"submitted", "working", "input-required"}

\* sanitize_message: the message it returns
sanitize_message(tsks, convs, message) ==
    IF ~Truthy(message.contextId) THEN message
    ELSE LET c == get_conversation(convs, message.contextId)
         IN  IF c = 0 THEN message
             ELSE IF convs[c].messages = <<>> THEN message
             ELSE LET task_id == Last(convs[c].messages).taskId
                  IN  IF Truthy(task_id) /\ task_still_open(tsks, task_id)
                      THEN [message EXCEPT !.taskId = task_id]
                      ELSE message

\* the histories a conversation can have when a new message arrives: the task
\* ids its messages are bound to (None, "", str(None), a task id)
Histories ==
    {<<>>} \cup {<<Msg("h1", "agent", "C1", t)>> : t \in {NoTask, EmptyId, StrNone, "T1", "T2"}}
    \cup {<<Msg("h1", "user", "C1", t1), Msg("h2", "agent", "C1", t2)>> :
            t1 \in {"T1", "T2"}, t2 \in {NoTask, "T1", "T2"}}

InitSanitize ==
    /\ InitRegistry
    /\ messages = <<>>
    /\ pending_message_ids = <<>>
    /\ sessions = EmptyFun
    /\ procs = EmptyFun
    /\ conns = EmptyFun
    /\ cancels = EmptyFun
    /\ \E h \in Histories :
          \/ conversations = <<>>
          \/ conversations = <<[conversation_id |-> "C1", messages |-> h]>>
          \/ conversations = <<[conversation_id |-> "C2", messages |-> <<>>],
                               [conversation_id |-> "C1", messages |-> h]>>

\* sanitize_message called with a new message; the message it returns is
\* recorded with the call
Sanitize(message) ==
    /\ Len(trace) < MaxSanitizeSteps
    /\ trace' = Append(trace, [op |-> "sanitize_message", event |-> message,
                               result |-> sanitize_message(tasks, conversations, message)])
    /\ UNCHANGED <<tasks, artifact_chunks, heap, events, task_map, conversations,
                   messages, pending_message_ids, sessions, procs, conns, cancels,
                   agents, host_agent>>

\* a status update that moves a task of the registry
MoveTask(e) ==
    /\ Len(trace) < MaxSanitizeSteps
    /\ TaskCallback(e)

NextSanitize ==
    \/ \E c \in {NoContext, EmptyId, "C1", "C2", "C3"}, t \in {NoTask, "T2"} :
          Sanitize(Msg("m9", "user", c, t))
    \/ \E s \in TaskStates :
          MoveTask(StatusUpdate("T1", ContextOf("T1"), s, NoMessage, s \in TerminalStates))
    \/ \E s \in {"working", "completed"} :
          MoveTask(StatusUpdate("T2", ContextOf("T2"), s, NoMessage, s \in TerminalStates))

SpecSanitize == InitSanitize /\ [][NextSanitize]_vars

(***************************************************************************)
(* ADKHostManager.create_conversation and process_message.  A call of      *)
(* process_message runs lines 154-201 up to the runner's loop, then one    *)
(* iteration of the loop per event the runner yields (lines 207-229), then *)
(* lines 231-250.  The runner is the external decision policy: which       *)
(* events it yields, and whether dispatch raises, are inputs.  Calls for   *)
(* different inbound messages interleave at the loop's await.              *)
(***************************************************************************)
Procs == {"p1", "p2"}

\* the id of the inbound message of a call, and of the response it builds
\* (str(uuid.uuid4()) each, so no two are equal)
InboundId(p) == IF p = "p1" THEN "u1" ELSE "u2"

ResponseId(p) == IF p = "p1" THEN "r1" ELSE "r2"

NoContent == [role |-> "<none>", parts |-> <<>>]

NoAdkEvent == [id |-> <<"adk", 0>>, author |-> "", content |-> NoContent,
               has_task_id |-> FALSE, task_id |-> NoTask]

Idle == [pc |-> "idle", message |-> Msg("", "", "", ""), context_id |-> NoContext,
         task_id |-> NoTask, conversation |-> 0, final_event |-> NoAdkEvent]

\* the parts of a Message (a2a.types.Part): text, structured data (by its JSON
\* text), a file by its base64 bytes, a file by its uri
TextPart(text) == [kind |-> "text", value |-> text, mime |-> ""]

DataPart(data) == [kind |-> "data", value |-> data, mime |-> ""]

FileWithBytes(bytes, mime_type) == [kind |-> "file-bytes", value |-> bytes, mime |-> mime_type]

FileWithUri(uri, mime_type) == [kind |-> "file-uri", value |-> uri, mime |-> mime_type]

\* the parts of an ADK content (types.Part), by the one field that is set:
\* text, inline_data, file_data, inline_data and file_data, none that the
\* conversion knows
AdkText(text) == [kind |-> "text", value |-> text, mime |-> ""]

AdkInline(data, mime_type) == [kind |-> "inline_data", value |-> data, mime |-> mime_type]

AdkFile(uri, mime_type) == [kind |-> "file_data", value |-> uri, mime |-> mime_type]

AdkInlineAndFile(data, mime_type) ==
    [kind |-> "inline_data+file_data", value |-> data, mime |-> mime_type]

AdkOther == [kind |-> "other", value |-> "", mime |-> ""]

\* the texts that json.loads turns into a dict, which DataPart accepts; any
\* other text makes json.loads or DataPart raise
JsonObjects == {"{}", "{\"a\": 1}"}

\* base64.b64encode(data).decode("utf-8") of the byte strings of the model
b64encode(data) ==
    CASE data = "" -> ""
      [] data = "hi" -> "aGk="
      [] data = "aGk=" -> "YUdrPQ=="
      [] OTHER -> "YjY0"

\* adk_content_from_message, lines 488-509: one part of the message.  The
\* bytes of a file are the UTF-8 bytes of its base64 text, not decoded.
part_to_adk_part(part) ==
    IF part.kind = "text" THEN AdkText(part.value)
    ELSE IF part.kind = "data" THEN AdkText(part.value)
    ELSE IF part.kind = "file-uri" THEN AdkFile(part.value, part.mime)
    ELSE AdkInline(part.value, part.mime)

\* adk_content_from_message
adk_content_from_message(message) ==
    [role |-> message.role,
     parts |-> [i \in 1..Len(message.parts) |-> part_to_adk_part(message.parts[i])]]

\* adk_content_to_message, lines 548-599: what one part of an ADK content
\* becomes.  A text that parses as a JSON object becomes a data part, other
\* text a text part; inline data becomes a file only when file_data is set
\* too, and nothing otherwise ("dropped"); an empty text or a part of no
\* known kind raises ValueError.
adk_part_to_part(part) ==
    IF part.kind = "text" /\ part.value # ""
    THEN IF part.value \in JsonObjects THEN DataPart(part.value)
         ELSE TextPart(part.value)
    ELSE IF part.kind = "inline_data" THEN [kind |-> "dropped", value |-> "", mime |-> ""]
    ELSE IF part.kind = "inline_data+file_data"
    THEN FileWithBytes(b64encode(part.value), part.mime)
    ELSE IF part.kind = "file_data" THEN FileWithUri(part.value, part.mime)
    ELSE [kind |-> "ValueError", value |-> "", mime |-> ""]

\* adk_content_to_message raises for this content
content_raises(content) ==
    \E i \in 1..Len(content.parts) : adk_part_to_part(content.parts[i]).kind = "ValueError"

\* the role of the converted message taken from the content unchanged
message_role_kept(content) == content.role

\* lines 542 and 601: Role.user if content.role == Role.user else Role.agent
message_role(content) == IF content.role = "user" THEN "user" ELSE "agent"

\* adk_content_to_message(content, context_id, task_id) with the fresh message
\* id it draws
adk_content_to_message(content, context_id, task_id, message_id) ==
    [messageId |-> message_id, role |-> message_role(content),
     contextId |-> context_id, taskId |-> task_id,
     parts |-> SelectSeq([i \in 1..Len(content.parts) |->
                             adk_part_to_part(content.parts[i])],
                         LAMBDA x : x.kind # "dropped")]

\* str(x) of an optional string
Str(x) == IF x = "<none>" THEN StrNone ELSE x

\* the list without the first occurrence of x (list.remove)
Remove(s, x) ==
    LET i == FirstIndex(s, LAMBDA y : y = x)
    IN  SubSeq(s, 1, i - 1) \o SubSeq(s, i + 1, Len(s))

InitHost ==
    /\ InitRegistry
    /\ InitConversations
    /\ procs = [p \in Procs |-> Idle]
    /\ conns = EmptyFun
    /\ cancels = EmptyFun

\* create_conversation: a session of a fresh id and its conversation
CreateConversation(c) ==
    /\ c \notin DOMAIN sessions
    /\ sessions' = [k \in DOMAIN sessions \cup {c} |->
                      IF k = c
                      THEN [task_id |-> NoTask, context_id |-> NoContext,
                            message_id |-> NoMessage]
                      ELSE sessions[k]]
    /\ conversations' = Append(conversations, [conversation_id |-> c, messages |-> <<>>])
    /\ UNCHANGED <<tasks, artifact_chunks, heap, events, task_map, messages,
                   pending_message_ids, procs, conns, trace, cancels,
                   agents, host_agent>>

\* the inbound message as the conversation and the event log hold it
Inbound(message) ==
    [messageId |-> message.messageId, role |-> message.role,
     contextId |-> message.contextId, taskId |-> message.taskId,
     parts |-> <<TextPart("ask")>>]

\* a session found for every id
session_is_none_never(sess, context_id) == FALSE

\* lines 179-182: get_session returns None for an id without session
session_is_none(sess, context_id) == context_id \notin DOMAIN sess

\* process_message, lines 154-201: the message is queued as pending, stored
\* and logged; without a session the call returns here
ProcessMessageStart(p, message) ==
    LET context_id == IF Truthy(message.contextId) THEN message.contextId ELSE "fresh"
        conv == get_conversation(conversations, context_id)
    IN  /\ procs[p].pc = "idle"
        /\ pending_message_ids' =
              IF Truthy(message.messageId)
              THEN Append(pending_message_ids, message.messageId)
              ELSE pending_message_ids
        /\ messages' = Append(messages, Inbound(message))
        /\ conversations' =
              IF conv = 0 THEN conversations
              ELSE [conversations EXCEPT ![conv].messages = Append(@, Inbound(message))]
        /\ events' = add_event(events, [id |-> FreshEventId(events), actor |-> "user",
                                        content |-> Inbound(message)])
        /\ IF session_is_none(sessions, context_id)
           THEN /\ procs' = [procs EXCEPT ![p] =
                      [Idle EXCEPT !.pc = "dropped", !.message = message,
                                   !.context_id = context_id, !.conversation = conv]]
                /\ UNCHANGED sessions
           ELSE /\ procs' = [procs EXCEPT ![p] =
                      [Idle EXCEPT !.pc = "running", !.message = message,
                                   !.context_id = context_id, !.conversation = conv,
                                   !.task_id = message.taskId]]
                /\ sessions' = [sessions EXCEPT ![context_id] =
                      [task_id |-> message.taskId, context_id |-> context_id,
                       message_id |-> message.messageId]]
        /\ UNCHANGED <<tasks, artifact_chunks, heap, task_map, conns, trace, cancels,
                       agents, host_agent>>

\* the number of events of the runner in the log
AdkEvents == Cardinality({i \in 1..Len(events) : events[i].id[1] = "adk"})

\* process_message, lines 207-229: one event of the runner.  The conversion of
\* its content raises ValueError for a part of no known kind.
ProcessMessageEvent(p, ev) ==
    LET task_id == IF ev.has_task_id THEN ev.task_id ELSE procs[p].task_id
    IN  /\ procs[p].pc = "running"
        /\ AdkEvents < MaxAdkEvents
        /\ IF content_raises(ev.content)
           THEN /\ procs' = [procs EXCEPT ![p].pc = "raised", ![p].task_id = task_id]
                /\ UNCHANGED events
           ELSE /\ procs' = [procs EXCEPT ![p].task_id = task_id, ![p].final_event = ev]
                /\ events' = add_event(events,
                      [id |-> ev.id, actor |-> ev.author,
                       content |-> adk_content_to_message(ev.content, procs[p].context_id,
                                                          Str(task_id), "uuid")])
        /\ UNCHANGED <<tasks, artifact_chunks, heap, task_map, conversations, messages,
                       pending_message_ids, sessions, conns, trace, cancels,
                       agents, host_agent>>

\* dispatch raises and the message id is taken off the pending list on the way
\* out (the cleanup in a finally clause)
ProcessMessageRaiseCleaning(p) ==
    /\ procs[p].pc = "running"
    /\ procs' = [procs EXCEPT ![p].pc = "raised"]
    /\ pending_message_ids' =
          IF procs[p].message.messageId \in Range(pending_message_ids)
          THEN Remove(pending_message_ids, procs[p].message.messageId)
          ELSE pending_message_ids
    /\ UNCHANGED <<tasks, artifact_chunks, heap, events, task_map, conversations,
                   messages, sessions, conns, trace, cancels, agents, host_agent>>

\* process_message, line 207: dispatch raises inside the runner's loop (a tool
\* call that raised, a remote task that failed); the exception leaves
\* process_message
ProcessMessageRaise(p) ==
    /\ procs[p].pc = "running"
    /\ procs' = [procs EXCEPT ![p].pc = "raised"]
    /\ UNCHANGED <<tasks, artifact_chunks, heap, events, task_map, conversations,
                   messages, pending_message_ids, sessions, conns, trace, cancels,
                   agents, host_agent>>

\* process_message, lines 231-250: the loop has ended; the response is built
\* from the final event and the message id leaves the pending list
ProcessMessageFinish(p) ==
    LET self == procs[p]
        fin == self.final_event
        has_final == fin # NoAdkEvent
        task_id == IF has_final /\ fin.has_task_id THEN Str(fin.task_id) ELSE self.task_id
        has_response == has_final /\ fin.content # NoContent
        response == adk_content_to_message([fin.content EXCEPT !.role = "model"],
                                           self.context_id, Str(task_id), ResponseId(p))
        id == self.message.messageId
    IN  /\ self.pc = "running"
        /\ messages' = IF has_response THEN Append(messages, response) ELSE messages
        /\ conversations' =
              IF self.conversation # 0 /\ has_response
              THEN [conversations EXCEPT ![self.conversation].messages = Append(@, response)]
              ELSE conversations
        /\ IF Truthy(id) /\ pending_message_ids # <<>>
           THEN IF id \in Range(pending_message_ids)
                THEN /\ pending_message_ids' = Remove(pending_message_ids, id)
                     /\ procs' = [procs EXCEPT ![p].pc = "returned", ![p].task_id = task_id]
                ELSE /\ UNCHANGED pending_message_ids
                     /\ procs' = [procs EXCEPT ![p].pc = "raised", ![p].task_id = task_id]
           ELSE /\ UNCHANGED pending_message_ids
                /\ procs' = [procs EXCEPT ![p].pc = "returned", ![p].task_id = task_id]
        /\ UNCHANGED <<tasks, artifact_chunks, heap, events, task_map, sessions, conns,
                       trace, cancels, agents, host_agent>>

\* an event of the runner with that content and, with d, a task_id in its
\* state delta
RunnerEvent(c, d) ==
    [id |-> <<"adk", AdkEvents + 1>>, author |-> "host_agent", content |-> c,
     has_task_id |-> d, task_id |-> IF d THEN "T1" ELSE NoTask]

\* the events the runner can yield as its next one: without content, with a
\* text (and a task id or none), with no parts, with a part of no known kind
RunnerEvents ==
    {RunnerEvent(NoContent, FALSE),
     RunnerEvent([role |-> "model", parts |-> <<AdkText("hello")>>], FALSE),
     RunnerEvent([role |-> "model", parts |-> <<AdkText("hello")>>], TRUE),
     RunnerEvent([role |-> "user", parts |-> <<>>], FALSE),
     RunnerEvent([role |-> "model", parts |-> <<AdkOther>>], FALSE)}

\* the inbound messages of the model: the first caller writes to either
\* conversation or to none, the second to conversation C1, with or without a
\* message id
InboundMessages(p) ==
    IF p = "p1"
    THEN {Msg(InboundId(p), "user", c, NoTask) : c \in {NoContext, "C1", "C2"}}
    ELSE {Msg(id, "user", "C1", NoTask) : id \in {InboundId(p), EmptyId}}

NextHost ==
    \/ \E c \in ContextIds : CreateConversation(c)
    \/ \E p \in Procs :
          \/ \E message \in InboundMessages(p) : ProcessMessageStart(p, message)
          \/ \E ev \in RunnerEvents : ProcessMessageEvent(p, ev)
          \/ ProcessMessageRaise(p)
          \/ ProcessMessageFinish(p)

SpecHost == InitHost /\ [][NextHost]_vars

(***************************************************************************)
(* One turn end to end: process_message runs the runner, the runner calls  *)
(* the tool HostAgent.send_message, which calls the remote agent; the      *)
(* runner waits for the tool, and an error raised by the tool leaves the   *)
(* runner's loop and process_message.  Both conversations exist, as after  *)
(* two calls of create_conversation.  One inbound message is processed;    *)
(* its runner may call both remote agents, one after the other.            *)
(***************************************************************************)

\* the callers of process_message in a turn, and the conversation they write to
TurnProcs == {"p1"}

TurnContext(p) == IF p = "p1" THEN "C1" ELSE "C2"

InitTurn ==
    /\ InitRegistry
    /\ messages = <<>>
    /\ pending_message_ids = <<>>
    /\ conversations = <<[conversation_id |-> "C1", messages |-> <<>>],
                         [conversation_id |-> "C2", messages |-> <<>>]>>
    /\ sessions = [c \in ContextIds |->
                     [task_id |-> NoTask, context_id |-> NoContext,
                      message_id |-> NoMessage]]
    /\ procs = [p \in Procs |-> Idle]
    /\ cancels = EmptyFun
    /\ \E f \in [Agents -> BOOLEAN] :
          conns = [c \in Agents |->
                     [streaming |-> f[c], pc |-> "idle", task |-> NoTask,
                      result |-> NoResult, tool_context |-> ToolContext(c),
                      caller |-> "", request |-> NoRequest]]

\* the tool call of p's runner is in flight
Waiting(p) == \E c \in Agents : conns[c].caller = p /\ conns[c].pc = "open"

\* the tool call of p's runner raised
ToolRaised(p) ==
    \E c \in Agents :
        /\ conns[c].caller = p
        /\ conns[c].tool_context.outcome \in {"ValueError", "KeyError", "IndexError"}

\* the inbound messages of a turn: for the caller's conversation, without
\* context id, for a context id that has no session
TurnMessages(p) ==
    {Msg(InboundId(p), "user", c, NoTask) : c \in {TurnContext(p), NoContext, "C3"}}

TurnStart(p) == \E message \in TurnMessages(p) : ProcessMessageStart(p, message)

\* HostAgent.send_message, lines 154-199: the runner of p calls the tool; the
\* ids of the request come from the session state
Dispatch(p, c) ==
    LET state == sessions[procs[p].context_id]
    IN  /\ procs[p].pc = "running"
        /\ ~Waiting(p)
        /\ ~ToolRaised(p)
        /\ conns[c].pc = "idle"
        /\ conns' = [conns EXCEPT
              ![c].pc = "open", ![c].caller = p,
              ![c].tool_context = [ToolContext(c) EXCEPT
                                      !.task_id = state.task_id,
                                      !.context_id = state.context_id],
              ![c].request = Request(IF Truthy(state.message_id)
                                     THEN state.message_id ELSE "uuid",
                                     state.context_id, state.task_id)]
        /\ UNCHANGED <<tasks, artifact_chunks, heap, events, task_map, conversations,
                       messages, pending_message_ids, sessions, procs, trace, cancels,
                       agents, host_agent>>

TurnEvent(p, ev) == ~Waiting(p) /\ ~ToolRaised(p) /\ ProcessMessageEvent(p, ev)

TurnRaise(p) == ToolRaised(p) /\ ProcessMessageRaise(p)

TurnFinish(p) == ~Waiting(p) /\ ~ToolRaised(p) /\ ProcessMessageFinish(p)

\* what the remote agent c streams in a turn: working, a whole artifact, an
\* append chunk without fragment, completed or failed as the final update
TurnEvents(c, k) ==
    LET t == TaskFor(c)
    IN  {StatusUpdate(t, ContextOf(t), "working", NoMessage, FALSE),
         ArtifactUpdate(t, ContextOf(t), "Art1", PartsOf(k), FALSE, "True"),
         ArtifactUpdate(t, ContextOf(t), "Art1", PartsOf(k), TRUE, "True"),
         StatusUpdate(t, ContextOf(t), "completed", NoMessage, TRUE),
         StatusUpdate(t, ContextOf(t), "failed", NoMessage, TRUE)}

\* the events the runner yields in a turn: one without and one with content
TurnRunnerEvents ==
    {RunnerEvent(NoContent, FALSE),
     RunnerEvent([role |-> "model", parts |-> <<AdkText("hello")>>],
                 FALSE)}

NextTurn ==
    \/ \E p \in TurnProcs :
          \/ TurnStart(p)
          \/ \E c \in Agents : Dispatch(p, c)
          \/ \E ev \in TurnRunnerEvents : TurnEvent(p, ev)
          \/ TurnRaise(p)
          \/ TurnFinish(p)
    \/ \E c \in Agents :
          \/ StreamError(c)
          \/ StreamMessage(c)
          \/ \E e \in TurnEvents(c, Len(trace) + 1) : StreamUpdate(c, e)
          \/ StreamEnd(c)
          \/ SendError(c)
          \/ SendMessage(c)
          \/ \E e \in ResultTasks(c) : SendResult(c, e)

SpecTurn == InitTurn /\ [][NextTurn]_vars

(***************************************************************************)
(* The two content conversions applied one after the other to a Message:   *)
(* adk_content_from_message, then adk_content_to_message on its result.    *)
(* The message converted is messages[1]; trace records each conversion     *)
(* with what it returned.                                                  *)
(***************************************************************************)

\* the parts a message can hold: a plain text, a text that reads as a JSON
\* object, an empty text, structured data, a file by bytes, a file by uri
RoundTripParts ==
    {TextPart("hello"), TextPart("{}"), TextPart(""), DataPart("{\"a\": 1}"),
     FileWithBytes("aGk=", "text/plain"), FileWithUri("gs://bucket/f", "text/plain")}

\* the sequences over S of length at most n
RECURSIVE SeqsUpTo(_, _)
SeqsUpTo(S, n) ==
    IF n = 0 THEN {<<>>}
    ELSE SeqsUpTo(S, n - 1)
         \cup {Append(q, x) : q \in {r \in SeqsUpTo(S, n - 1) : Len(r) = n - 1}, x \in S}

InitRoundTrip ==
    /\ InitRegistry
    /\ conversations = <<>>
    /\ pending_message_ids = <<>>
    /\ sessions = EmptyFun
    /\ procs = EmptyFun
    /\ conns = EmptyFun
    /\ cancels = EmptyFun
    /\ \E role \in {"user", "agent"}, parts \in SeqsUpTo(RoundTripParts, MaxParts) :
          messages = <<[messageId |-> "m1", role |-> role, contextId |-> "C1",
                        taskId |-> NoTask, parts |-> parts]>>

\* content = adk_content_from_message(message)
FromMessage ==
    /\ trace = <<>>
    /\ trace' = <<[op |-> "adk_content_from_message", raised |-> "",
                   result |-> adk_content_from_message(messages[1])]>>
    /\ UNCHANGED <<tasks, artifact_chunks, heap, events, task_map, conversations,
                   messages, pending_message_ids, sessions, procs, conns, cancels,
                   agents, host_agent>>

\* adk_content_to_message(content, context_id, task_id) on the content that
\* the first conversion returned
ToMessage ==
    /\ Len(trace) = 1
    /\ LET content == trace[1].result
       IN  trace' = Append(trace,
              [op |-> "adk_content_to_message",
               raised |-> IF content_raises(content) THEN "ValueError" ELSE "",
               result |-> IF content_raises(content) THEN content
                          ELSE adk_content_to_message(content, messages[1].contextId,
                                                      messages[1].taskId, "uuid")])
    /\ UNCHANGED <<tasks, artifact_chunks, heap, events, task_map, conversations,
                   messages, pending_message_ids, sessions, procs, conns, cancels,
                   agents, host_agent>>

NextRoundTrip == FromMessage \/ ToMessage

SpecRoundTrip == InitRoundTrip /\ [][NextRoundTrip]_vars

(***************************************************************************)
(* The event log and its read model: add_event and the events property.    *)
(* An Event here is [id, actor, content, timestamp].                       *)
(***************************************************************************)

\* x put into the sorted list s in front of the elements of its timestamp
insert_before_ties(s, x) ==
    LET n == Cardinality({i \in 1..Len(s) : s[i].timestamp < x.timestamp})
    IN  SubSeq(s, 1, n) \o <<x>> \o SubSeq(s, n + 1, Len(s))

\* x put into the sorted list s behind the elements of its timestamp
insert_after_ties(s, x) ==
    LET n == Cardinality({i \in 1..Len(s) : s[i].timestamp <= x.timestamp})
    IN  SubSeq(s, 1, n) \o <<x>> \o SubSeq(s, n + 1, Len(s))

\* a sort by timestamp that turns the order of equal timestamps around
RECURSIVE sorted_ties_reversed(_)
sorted_ties_reversed(s) ==
    IF s = <<>> THEN <<>>
    ELSE insert_before_ties(sorted_ties_reversed(Front(s)), Last(s))

\* sorted(values, key=lambda x: x.timestamp): Python's sort is stable
RECURSIVE sorted(_)
sorted(s) ==
    IF s = <<>> THEN <<>>
    ELSE insert_after_ties(sorted(Front(s)), Last(s))

\* the events property: the dict's values, in the dict's order, sorted
events_property(evs) == sorted(evs)

\* the events a caller adds: two ids, two timestamps, two contents
LogEvents ==
    {[id |-> i, actor |-> "user", content |-> c, timestamp |-> ts] :
        i \in {"e1", "e2"}, c \in {"a", "b"}, ts \in {1, 2}}

InitEvents ==
    /\ InitRegistry
    /\ InitConversations
    /\ procs = EmptyFun
    /\ conns = EmptyFun
    /\ cancels = EmptyFun

\* add_event(event)
AddEvent(ev) ==
    /\ Len(trace) < MaxLogEvents
    /\ events' = add_event(events, ev)
    /\ trace' = Append(trace, [op |-> "add_event", event |-> ev])
    /\ UNCHANGED <<tasks, artifact_chunks, heap, task_map, conversations, messages,
                   pending_message_ids, sessions, procs, conns, cancels,
                   agents, host_agent>>

NextEvents == \E ev \in LogEvents : AddEvent(ev)

SpecEvents == InitEvents /\ [][NextEvents]_vars

(***************************************************************************)
(* ADKHostManager.get_pending_messages, called while messages are being    *)
(* processed and the remote agents report on their tasks.  A status        *)
(* message is mapped to its task by its message id, so an inbound message  *)
(* is mapped when a status message carries its id.                         *)
(***************************************************************************)

\* the parts of the message of that id: a text, structured data, none
PartsOfMessage(message_id) ==
    CASE message_id = "m1" -> <<TextPart("on it")>>
      [] message_id = "m2" -> <<DataPart("{}")>>
      [] OTHER -> <<>>

\* get_pending_messages: the list of (message id, text) it returns
RECURSIVE get_pending_messages(_, _, _)
get_pending_messages(pending, tmap, tsks) ==
    IF pending = <<>> THEN <<>>
    ELSE LET message_id == Last(pending)
             rval == get_pending_messages(Front(pending), tmap, tsks)
         IN  IF message_id \in DOMAIN tmap
             THEN IF FirstIndex(tsks, LAMBDA x : x.id = tmap[message_id]) = 0
                  THEN Append(rval, <<message_id, "">>)
                  ELSE LET history == current_task(tsks, tmap[message_id]).history
                       IN  IF history # <<>> /\ PartsOfMessage(Last(history)) # <<>>
                           THEN IF Len(history) = 1
                                THEN Append(rval, <<message_id, "Working...">>)
                                ELSE LET part == PartsOfMessage(Last(history))[1]
                                     IN  Append(rval,
                                            <<message_id,
                                              IF part.kind = "text" THEN part.value
                                              ELSE "Working...">>)
                           ELSE rval
             ELSE Append(rval, <<message_id, "">>)

InitPending ==
    /\ InitRegistry
    /\ messages = <<>>
    /\ pending_message_ids = <<>>
    /\ conversations = <<[conversation_id |-> "C1", messages |-> <<>>]>>
    /\ sessions = [c \in {"C1"} |->
                     [task_id |-> NoTask, context_id |-> NoContext,
                      message_id |-> NoMessage]]
    /\ procs = [p \in Procs |-> Idle]
    /\ conns = EmptyFun
    /\ cancels = EmptyFun

\* the id of the inbound message of a call, an id that a status message of
\* the remote agent carries too
PendingId(p) == IF p = "p1" THEN "m1" ELSE "m2"

\* process_message starts for a message of conversation C1
PendingStart(p) == ProcessMessageStart(p, Msg(PendingId(p), "user", "C1", NoTask))

\* what the remote agent reports on task T1: status updates with a message of
\* one of three ids or without message, and the Task itself
PendingEvents ==
    {StatusUpdate("T1", "C1", "working", m, FALSE) : m \in {NoMessage, "m1", "m2", "m3"}}
    \cup {TaskEvent("T1", "C1", "working", m) : m \in {"m1", "m2"}}

PendingCallback(e) ==
    /\ Len(trace) < MaxPendingSteps
    /\ TaskCallback(e)

\* get_pending_messages(); the call is recorded with the pending list it read
\* and the list it returned
GetPendingMessages ==
    /\ Len(trace) < MaxPendingSteps
    /\ trace' = Append(trace,
          [op |-> "get_pending_messages", event |-> pending_message_ids,
           result |-> get_pending_messages(pending_message_ids, task_map, tasks)])
    /\ UNCHANGED <<tasks, artifact_chunks, heap, events, task_map, conversations,
                   messages, pending_message_ids, sessions, procs, conns, cancels,
                   agents, host_agent>>

NextPending ==
    \/ \E p \in Procs : PendingStart(p)
    \/ \E e \in PendingEvents : PendingCallback(e)
    \/ GetPendingMessages

SpecPending == InitPending /\ [][NextPending]_vars

(***************************************************************************)
(* The registration of remote agents: ADKHostManager.register_agent and    *)
(* HostAgent.register_agent_card.  An AgentCard is [name, version], the    *)
(* version standing for what the card of that fetch said.                  *)
(***************************************************************************)
AgentCard(name, version) == [name |-> name, version |-> version]

\* RemoteAgentConnections(self.httpx_client, card)
RemoteAgentConnections(card) == [card |-> card]

\* the dict d with d[k] = v
Assign(d, k, v) == [x \in DOMAIN d \cup {k} |-> IF x = k THEN v ELSE d[x]]

\* HostAgent.register_agent_card: the connection and the card are stored under
\* the card's name
register_agent_card(ha, card) ==
    [cards |-> Assign(ha.cards, card.name, card),
     remote_agent_connections |->
        Assign(ha.remote_agent_connections, card.name, RemoteAgentConnections(card))]

\* ADKHostManager.register_agent(url), with the card that get_agent_card(url)
\* fetched
register_agent(card) ==
    /\ Len(agents) < MaxRegistrations
    /\ agents' = Append(agents, card)
    /\ host_agent' = register_agent_card(host_agent, card)
    /\ trace' = Append(trace, [op |-> "register_agent", event |-> card])
    /\ UNCHANGED <<tasks, artifact_chunks, heap, events, task_map, conversations,
                   messages, pending_message_ids, sessions, procs, conns, cancels>>

\* the cards a fetch can return: two agents, three versions of each card
AgentCards == {AgentCard(name, version) : name \in Agents, version \in 1..3}

InitRegister ==
    /\ InitRegistry
    /\ InitConversations
    /\ procs = EmptyFun
    /\ conns = EmptyFun
    /\ cancels = EmptyFun

NextRegister == \E card \in AgentCards : register_agent(card)

SpecRegister == InitRegister /\ [][NextRegister]_vars

(***************************************************************************)
(* The remote agent executors' execute(context, event_queue), for the two  *)
(* executors FiMoneyAgentExecutor and InvestmentPlannerAgentExecutor.  The  *)
(* agent's runner is the input: each of its events is of one of the kinds  *)
(* below, and it ends or raises when it likes.  procs[x].queue is the      *)
(* event queue of the call, procs[x].full_response what the planner's      *)
(* stream has collected.  The executors are separate objects with separate *)
(* queues: a behaviour follows one call of one of them.                    *)
(***************************************************************************)
ExecuteCalls == {"FiMoneyAgentExecutor", "InvestmentPlannerAgentExecutor"}

\* the events of the runner: not a final response; a final response with a
\* text (plain, a JSON object, JSON that is no object), without parts, with a
\* function response that holds a form (a JSON result or a broken one), with
\* another function response
FinalTexts == {"plan", "{}", "[]"}

RunnerKinds ==
    {"partial", "final-empty", "final-form", "final-bad-form", "final-response"}
    \cup FinalTexts

InitExecute ==
    /\ InitRegistry
    /\ InitConversations
    /\ conns = EmptyFun
    /\ cancels = EmptyFun
    /\ \E x \in ExecuteCalls :
          procs = [y \in {x} |->
                     [pc |-> "idle", queue |-> <<>>, full_response |-> <<>>, seen |-> 0]]

\* event_queue.enqueue_event
enqueue_event(queue, e) == Append(queue, e)

\* updater.update_status(state, message, final): a status update with a fresh
\* message
update_status(queue, state, final) ==
    enqueue_event(queue, StatusUpdate("T1", "C1", state, "uuid", final))

\* updater.add_artifact(parts): one whole artifact
add_artifact(queue, parts) ==
    enqueue_event(queue, ArtifactUpdate("T1", "C1", "Art1", parts, FALSE, "None"))

\* updater.complete()
complete(queue) == enqueue_event(queue, StatusUpdate("T1", "C1", "completed", NoMessage, TRUE))

\* lines 29-36 (FiMoney) and 37-44 (planner): without current task a new Task
\* is enqueued
new_task_enqueued(queue, has_task) ==
    IF has_task THEN queue ELSE enqueue_event(queue, TaskEvent("T1", "C1", "submitted", NoMessage))

ExecuteStep(x, pc, queue, full_response, seen, input) ==
    /\ procs' = [procs EXCEPT ![x] = [pc |-> pc, queue |-> queue,
                                      full_response |-> full_response, seen |-> seen]]
    /\ trace' = Append(trace, [op |-> "execute", executor |-> x, event |-> input])
    /\ UNCHANGED <<tasks, artifact_chunks, heap, events, task_map, conversations,
                   messages, pending_message_ids, sessions, conns, cancels,
                   agents, host_agent>>

\* FiMoneyAgentExecutor.execute, lines 28-36
FiMoneyAgentExecutor_execute(has_task) ==
    LET x == "FiMoneyAgentExecutor"
    IN  /\ x \in DOMAIN procs
        /\ procs[x].pc = "idle"
        /\ ExecuteStep(x, "streaming", new_task_enqueued(<<>>, has_task), <<>>, 0, "execute")

\* FiMoneyAgentExecutor.execute, lines 39-81, with FiMoneyAgent.stream, lines
\* 74-103: one event of the runner becomes one item, and the item is handled
FiMoneyAgentExecutor_item(kind) ==
    LET x == "FiMoneyAgentExecutor"
        self == procs[x]
    IN  /\ x \in DOMAIN procs
        /\ self.pc = "streaming"
        /\ self.seen < MaxRunnerEvents
        /\ IF kind = "partial"
           THEN ExecuteStep(x, "streaming", update_status(self.queue, "working", FALSE),
                            <<>>, self.seen + 1, kind)
           ELSE IF kind = "final-form"
           THEN ExecuteStep(x, "streaming",
                            update_status(self.queue, "input-required", TRUE),
                            <<>>, self.seen + 1, kind)
           ELSE IF kind = "final-bad-form"
           THEN ExecuteStep(x, "raised", self.queue, <<>>, self.seen + 1, kind)
           ELSE IF kind = "final-response"
           THEN ExecuteStep(x, "returned", update_status(self.queue, "failed", TRUE),
                            <<>>, self.seen + 1, kind)
           ELSE ExecuteStep(x, "returned",
                            complete(add_artifact(self.queue, <<kind>>)),
                            <<>>, self.seen + 1, kind)

\* the runner of the FiMoney agent ends: the loop of line 39 ends and execute
\* returns
FiMoneyAgentExecutor_end ==
    LET x == "FiMoneyAgentExecutor"
    IN  /\ x \in DOMAIN procs
        /\ procs[x].pc = "streaming"
        /\ ExecuteStep(x, "returned", procs[x].queue, <<>>, procs[x].seen, "end")

\* InvestmentPlannerAgentExecutor.execute, lines 36-55
InvestmentPlannerAgentExecutor_execute(has_task) ==
    LET x == "InvestmentPlannerAgentExecutor"
    IN  /\ x \in DOMAIN procs
        /\ procs[x].pc = "idle"
        /\ ExecuteStep(x, "streaming",
                       update_status(new_task_enqueued(<<>>, has_task), "working", FALSE),
                       <<>>, 0, "execute")

\* investment_planner.stream, lines 84-100, with execute, lines 58-70: a final
\* response adds its texts to full_response and yields nothing, any other
\* event yields an update
InvestmentPlannerAgentExecutor_item(kind) ==
    LET x == "InvestmentPlannerAgentExecutor"
        self == procs[x]
    IN  /\ x \in DOMAIN procs
        /\ self.pc = "streaming"
        /\ self.seen < MaxRunnerEvents
        /\ IF kind = "partial"
           THEN ExecuteStep(x, "streaming", update_status(self.queue, "working", FALSE),
                            self.full_response, self.seen + 1, kind)
           ELSE IF kind = "final-empty"
           THEN ExecuteStep(x, "streaming", self.queue, self.full_response,
                            self.seen + 1, kind)
           ELSE IF kind \in FinalTexts
           THEN ExecuteStep(x, "streaming", self.queue, Append(self.full_response, kind),
                            self.seen + 1, kind)
           ELSE ExecuteStep(x, "streaming", self.queue,
                            Append(self.full_response, "{'response': ...}"),
                            self.seen + 1, kind)

\* "\n".join(full_response), by what json.loads makes of it: one text is
\* itself, several joined are no JSON
joined(full_response) ==
    IF Len(full_response) = 1 THEN full_response[1] ELSE "plan"

\* the runner of the planner ends: lines 103-107 of stream yield the final
\* item when full_response is not empty, and execute (lines 73-120) turns it
\* into an artifact and a final status update; DataPart refuses JSON that is
\* no object, which the handler of line 122 reports as failed
InvestmentPlannerAgentExecutor_end ==
    LET x == "InvestmentPlannerAgentExecutor"
        self == procs[x]
        content == joined(self.full_response)
    IN  /\ x \in DOMAIN procs
        /\ self.pc = "streaming"
        /\ IF self.full_response = <<>>
           THEN ExecuteStep(x, "returned", self.queue, <<>>, self.seen, "end")
           ELSE IF content = "[]"
           THEN ExecuteStep(x, "returned", update_status(self.queue, "failed", TRUE),
                            self.full_response, self.seen, "end")
           ELSE ExecuteStep(x, "returned",
                            update_status(add_artifact(self.queue, <<content>>),
                                          "completed", TRUE),
                            self.full_response, self.seen, "end")

\* the runner of the planner raises: lines 122-132
InvestmentPlannerAgentExecutor_raise ==
    LET x == "InvestmentPlannerAgentExecutor"
    IN  /\ x \in DOMAIN procs
        /\ procs[x].pc = "streaming"
        /\ ExecuteStep(x, "returned", update_status(procs[x].queue, "failed", TRUE),
                       procs[x].full_response, procs[x].seen, "raise")

NextExecute ==
    \/ \E has_task \in BOOLEAN : FiMoneyAgentExecutor_execute(has_task)
    \/ \E kind \in RunnerKinds : FiMoneyAgentExecutor_item(kind)
    \/ FiMoneyAgentExecutor_end
    \/ \E has_task \in BOOLEAN : InvestmentPlannerAgentExecutor_execute(has_task)
    \/ \E kind \in RunnerKinds : InvestmentPlannerAgentExecutor_item(kind)
    \/ InvestmentPlannerAgentExecutor_end
    \/ InvestmentPlannerAgentExecutor_raise

SpecExecute == InitExecute /\ [][NextExecute]_vars

(***************************************************************************)
(* The remote agent executors' cancel(request, event_queue), one action    *)
(* per executor class; cancels records what each call did for each task.   *)
(***************************************************************************)
Executors == {"CSAAgentExecutor", "FinancialAnalysisAgentExecutor",
              "InvestmentPlannerAgentExecutor", "FiMoneyAgentExecutor",
              "RiskAnalyzerExecutor", "ReceiptProcessingAgentExecutor"}

Unsupported == "ServerError(UnsupportedOperationError)"

ReturnedNone == "returned None"

InitCancel ==
    /\ InitRegistry
    /\ InitConversations
    /\ procs = EmptyFun
    /\ conns = EmptyFun
    /\ cancels = [x \in Executors \X TaskIds |-> "not called"]

\* raise ServerError(error=UnsupportedOperationError("Compliance audit cannot be
\* cancelled"))
CSAAgentExecutor_cancel(t) ==
    /\ cancels' = [cancels EXCEPT ![<<"CSAAgentExecutor", t>>] = Unsupported]
    /\ UNCHANGED <<tasks, artifact_chunks, heap, events, task_map, conversations,
                   messages, pending_message_ids, sessions, procs, conns, trace,
                   agents, host_agent>>

\* raise ServerError(error=UnsupportedOperationError("Financial analysis cannot
\* be cancelled"))
FinancialAnalysisAgentExecutor_cancel(t) ==
    /\ cancels' = [cancels EXCEPT ![<<"FinancialAnalysisAgentExecutor", t>>] = Unsupported]
    /\ UNCHANGED <<tasks, artifact_chunks, heap, events, task_map, conversations,
                   messages, pending_message_ids, sessions, procs, conns, trace,
                   agents, host_agent>>

\* "Cancellation not supported for investment planning": return None
InvestmentPlannerAgentExecutor_cancel(t) ==
    /\ cancels' = [cancels EXCEPT ![<<"InvestmentPlannerAgentExecutor", t>>] = ReturnedNone]
    /\ UNCHANGED <<tasks, artifact_chunks, heap, events, task_map, conversations,
                   messages, pending_message_ids, sessions, procs, conns, trace,
                   agents, host_agent>>

\* raise ServerError(error=UnsupportedOperationError())
FiMoneyAgentExecutor_cancel(t) ==
    /\ cancels' = [cancels EXCEPT ![<<"FiMoneyAgentExecutor", t>>] = Unsupported]
    /\ UNCHANGED <<tasks, artifact_chunks, heap, events, task_map, conversations,
                   messages, pending_message_ids, sessions, procs, conns, trace,
                   agents, host_agent>>

\* "Cancellation not supported for investment planning": return None
RiskAnalyzerExecutor_cancel(t) ==
    /\ cancels' = [cancels EXCEPT ![<<"RiskAnalyzerExecutor", t>>] = ReturnedNone]
    /\ UNCHANGED <<tasks, artifact_chunks, heap, events, task_map, conversations,
                   messages, pending_message_ids, sessions, procs, conns, trace,
                   agents, host_agent>>

\* raise ServerError(error=UnsupportedOperationError("Receipt processing cannot
\* be cancelled"))
ReceiptProcessingAgentExecutor_cancel(t) ==
    /\ cancels' = [cancels EXCEPT ![<<"ReceiptProcessingAgentExecutor", t>>] = Unsupported]
    /\ UNCHANGED <<tasks, artifact_chunks, heap, events, task_map, conversations,
                   messages, pending_message_ids, sessions, procs, conns, trace,
                   agents, host_agent>>

NextCancel ==
    \E t \in TaskIds :
        \/ CSAAgentExecutor_cancel(t)
        \/ FinancialAnalysisAgentExecutor_cancel(t)
        \/ InvestmentPlannerAgentExecutor_cancel(t)
        \/ FiMoneyAgentExecutor_cancel(t)
        \/ RiskAnalyzerExecutor_cancel(t)
        \/ ReceiptProcessingAgentExecutor_cancel(t)

SpecCancel == InitCancel /\ [][NextCancel]_vars

(***************************************************************************)
(* Properties of the task state machine (SpecStatus).                      *)
(***************************************************************************)

\* C1: once a task's recorded state is terminal, no later update event changes
\* the recorded state of that task.
C1_TerminalStateIsFinal ==
    [][\A i \in 1..Len(tasks) :
          tasks[i].state \in TerminalStates => tasks'[i].state = tasks[i].state]_vars

\* the step applies, through task_callback, the event that the step before
\* applied
SameEventAgain ==
    /\ Len(trace) >= 1
    /\ trace' = Append(trace, Last(trace))
    /\ Last(trace).op = "task_callback"

\* C5: applying the same StatusUpdate event twice in a row leaves the task as
\* it was after the first application: same status, same history (so no
\* duplicated message id), same artifacts.
C5_StatusUpdateIdempotent ==
    [][(SameEventAgain /\ Last(trace).event.kind = "status-update") =>
          LET id == Last(trace).event.taskId
              before == current_task(TasksByValue(tasks, heap), id)
              after == current_task(TasksByValue(tasks', heap'), id)
          IN  /\ after = before
              /\ \A i, j \in 1..Len(after.history) :
                    after.history[i] = after.history[j] => i = j]_vars

\* C5 witness: a status update with a message was applied twice in a row to a
\* task that already had another message in its history
C5_Witness ==
    /\ Len(trace) >= 2
    /\ trace[Len(trace)] = trace[Len(trace) - 1]
    /\ Last(trace).event.kind = "status-update"
    /\ Last(trace).event.message \in MessageIds
    /\ LET t == TaskOf(Last(trace).event.taskId)
       IN  Len(t.history) = 2 /\ Last(t.history) = Last(trace).event.message

\* the states of the status updates applied to task t so far, in order
StatesApplied(t) ==
    LET S == SelectSeq(trace, LAMBDA x : x.op = "task_callback"
                                         /\ x.event.kind = "status-update"
                                         /\ x.event.taskId = t)
    IN  [i \in 1..Len(S) |-> S[i].event.state]

\* zero or more non-terminal states followed by exactly one terminal state
EndsTerminal(S) ==
    /\ S # <<>>
    /\ Last(S) \in TerminalStates
    /\ \A i \in 1..(Len(S) - 1) : S[i] \in NonTerminalStates

\* C6: when the status updates applied to a task are non-terminal states
\* followed by one terminal state, the recorded state is that terminal state.
C6_FinalStateIsTerminal ==
    \A t \in TaskIds :
        EndsTerminal(StatesApplied(t)) =>
            HasTask(t) /\ TaskOf(t).state = Last(StatesApplied(t))

\* C6 witness: two non-terminal states and then a terminal one were applied
C6_Witness ==
    \E t \in TaskIds :
        /\ EndsTerminal(StatesApplied(t))
        /\ Len(StatesApplied(t)) = 3
        /\ StatesApplied(t)[2] = "input-required"
        /\ TaskOf(t).state = "failed"

(***************************************************************************)
(* Properties of the artifact reassembly (SpecArtifact).                   *)
(***************************************************************************)

\* the step applies the artifact update e through task_callback
AppliesArtifact(e) ==
    /\ trace' = Append(trace, Last(trace'))
    /\ Last(trace').op = "task_callback"
    /\ Last(trace').event = e
    /\ e.kind = "artifact-update"

\* e continues or starts the artifact of the fragment f, for the same task
SameArtifact(e, f) ==
    /\ f.kind = "artifact-update"
    /\ f.taskId = e.taskId
    /\ f.artifactId = e.artifactId

FirstFragment(e) == e.kind = "artifact-update" /\ ~e.append /\ e.lastChunk = "False"

MiddleFragment(e) == e.kind = "artifact-update" /\ e.append /\ e.lastChunk = "False"

LastFragment(e) == e.kind = "artifact-update" /\ e.append /\ e.lastChunk = "True"

\* the finished artifacts of the task of that id, by value, <<>> without task
Finished(tsks, hp, id) ==
    IF \E i \in 1..Len(tsks) : tsks[i].id = id
    THEN current_task(TasksByValue(tsks, hp), id).artifacts
    ELSE <<>>

\* C3: the fragments [append=false,last_chunk=false], [append=true,
\* last_chunk=false], [append=true,last_chunk=true] of one artifact id, applied
\* in that order, add exactly one artifact to the task's finished list: the
\* first two add none, the third adds the artifact whose parts are the three
\* fragments' parts concatenated in arrival order.
C3_Reassembly ==
    [][\A e \in ArtifactEvents(Len(trace) + 1) :
          AppliesArtifact(e) =>
             LET n == Len(trace)
                 old == Finished(tasks, heap, e.taskId)
                 new == Finished(tasks', heap', e.taskId)
             IN  /\ FirstFragment(e) => new = old
                 /\ (n >= 1 /\ MiddleFragment(e) /\ FirstFragment(trace[n].event)
                        /\ SameArtifact(e, trace[n].event)) => new = old
                 /\ (n >= 2 /\ LastFragment(e) /\ MiddleFragment(trace[n].event)
                        /\ FirstFragment(trace[n - 1].event)
                        /\ SameArtifact(e, trace[n].event)
                        /\ SameArtifact(e, trace[n - 1].event)) =>
                       new = Append(old,
                                [artifactId |-> e.artifactId,
                                 parts |-> trace[n - 1].event.parts
                                           \o trace[n].event.parts \o e.parts])]_vars

\* C3 witness: the three fragments were applied in order and the task holds
\* the assembled artifact, six parts long
C3_Witness ==
    /\ Len(trace) >= 3
    /\ LET n == Len(trace)
           e == trace[n].event
       IN  /\ LastFragment(e) /\ MiddleFragment(trace[n - 1].event)
           /\ FirstFragment(trace[n - 2].event)
           /\ SameArtifact(e, trace[n - 1].event)
           /\ SameArtifact(e, trace[n - 2].event)
           /\ Len(Finished(tasks, heap, e.taskId)) >= 1
           /\ Len(Last(Finished(tasks, heap, e.taskId)).parts) = 6

(***************************************************************************)
(* Properties of the streaming call (SpecStream).                          *)
(***************************************************************************)

\* agent A was called alone and streamed StatusUpdate(T1, working), a whole
\* artifact Art1 (append=false, last_chunk=true), StatusUpdate(T1, completed,
\* final=true); the call has returned
StreamingScenario ==
    /\ Len(trace) = 3
    /\ \A i \in 1..3 : trace[i].op = "update" /\ trace[i].conn = "A"
    /\ trace[1].event = StatusUpdate("T1", "C1", "working", NoMessage, FALSE)
    /\ trace[2].event = ArtifactUpdate("T1", "C1", "Art1", PartsOf(2), FALSE, "True")
    /\ trace[3].event = StatusUpdate("T1", "C1", "completed", NoMessage, TRUE)
    /\ conns["A"].pc = "returned"

\* C2: after the streaming scenario the registry holds exactly one task, T1,
\* completed, with exactly one artifact, Art1, with exactly the streamed parts.
C2_StreamingScenario ==
    StreamingScenario =>
        /\ Len(tasks) = 1
        /\ tasks[1].id = "T1"
        /\ tasks[1].state = "completed"
        /\ ArtifactsOf(tasks[1]) = <<[artifactId |-> "Art1", parts |-> PartsOf(2)]>>

\* the step delivers to the streaming call of agent c an append chunk for an
\* artifact id that has no fragment in the scratch buffer
UnmatchedAppend(c, e) ==
    /\ trace' = Append(trace, Last(trace'))
    /\ Last(trace').op = "update"
    /\ Last(trace').conn = c
    /\ Last(trace').event = e
    /\ e.kind = "artifact-update" /\ e.append
    /\ \/ e.artifactId \notin DOMAIN artifact_chunks
       \/ artifact_chunks[e.artifactId] = <<>>

\* the tasks other than the one of that id, by value
OtherTasks(tsks, hp, id) ==
    SelectSeq(TasksByValue(tsks, hp), LAMBDA t : t.id # id)

\* the scratch fragments of the artifact ids other than a, by value
OtherChunks(chunks, hp, a) ==
    [k \in DOMAIN chunks \ {a} |-> ChunksByValue(chunks, hp)[k]]

C4_WitnessCompleted ==
    /\ conns["A"].pc = "raised"
    /\ Last(trace).raised = "IndexError"

(***************************************************************************)
(* Properties of sanitize_message (SpecSanitize).                          *)
(***************************************************************************)

\* the conversation of that context id exists, has a history, and its most
\* recent message is bound to a task that the registry holds in an open state
PinnedToOpenTask(c) ==
    /\ Truthy(c)
    /\ \E i \in 1..Len(conversations) :
          /\ conversations[i].conversation_id = c
          /\ \A j \in 1..(i - 1) : conversations[j].conversation_id # c
          /\ conversations[i].messages # <<>>
          /\ LET t == Last(conversations[i].messages).taskId
             IN  /\ Truthy(t)
                 /\ HasTask(t)
                 /\ TaskOf(t).state \in NonTerminalStates

\* the task id of the most recent message of the conversation of that id
LastTaskId(c) ==
    Last(conversations[CHOOSE i \in 1..Len(conversations) :
                          conversations[i].conversation_id = c].messages).taskId

\* C7: sanitize_message puts the task id of the conversation's most recent
\* message on the new message exactly when that message is bound to an open
\* task of the registry; otherwise it returns the message as it came.
C7_Sanitize ==
    (trace # <<>> /\ Last(trace).op = "sanitize_message") =>
        LET message == Last(trace).event
            result == Last(trace).result
        IN  IF PinnedToOpenTask(message.contextId)
            THEN result = [message EXCEPT !.taskId = LastTaskId(message.contextId)]
            ELSE result = message

\* C7 witness: a message without task id was pinned to the working task of the
\* conversation's most recent message
C7_Witness ==
    /\ trace # <<>>
    /\ Last(trace).op = "sanitize_message"
    /\ Last(trace).event.taskId = NoTask
    /\ Last(trace).result.taskId = "T1"
    /\ TaskOf("T1").state = "working"

\* C7 witness of the other case: the last bound task is completed and the new
\* message's task id stays unset
C7_WitnessCompleted ==
    /\ trace # <<>>
    /\ Last(trace).op = "sanitize_message"
    /\ Last(trace).event.contextId = "C1"
    /\ conversations # <<>>
    /\ Last(conversations).messages # <<>>
    /\ Last(Last(conversations).messages).taskId = "T1"
    /\ HasTask("T1")
    /\ TaskOf("T1").state = "completed"
    /\ Last(trace).result.taskId = NoTask

(***************************************************************************)
(* Properties of process_message (SpecHost).                               *)
(***************************************************************************)

\* the step is the end of the call p of process_message, which returns, after
\* a final event that carries content, for a message of a registered
\* conversation
FinishesWithContent(p) ==
    /\ procs[p].pc = "running"
    /\ procs'[p].pc = "returned"
    /\ procs[p].final_event # NoAdkEvent
    /\ procs[p].final_event.content # NoContent
    /\ procs[p].conversation # 0

\* C8: when process_message ends after a final event with content, exactly
\* one response message, of role agent, is appended to the conversation of
\* the inbound message and to the global message list, nothing else is added
\* to any conversation, and the inbound message's id is not pending afterwards.
C8_ResponseAppendedAndPendingCleared ==
    [][\A p \in Procs :
          FinishesWithContent(p) =>
             LET c == procs[p].conversation
                 r == Last(messages')
             IN  /\ messages' = Append(messages, r)
                 /\ r.role = "agent"
                 /\ conversations' =
                       [conversations EXCEPT ![c].messages = Append(@, r)]
                 /\ conversations[c].conversation_id = procs[p].context_id
                 /\ procs[p].message.messageId \notin Range(pending_message_ids')]_vars

\* C8 witness: a call has returned with a response in its conversation, and
\* its message id was pending before and is not any more, while the other
\* call is still running
C8_Witness ==
    \E p \in Procs :
        /\ procs[p].pc = "returned"
        /\ procs[p].message.messageId = InboundId(p)
        /\ procs[p].conversation # 0
        /\ \E i \in 1..Len(conversations[procs[p].conversation].messages) :
              conversations[procs[p].conversation].messages[i].messageId = ResponseId(p)
        /\ InboundId(p) \notin Range(pending_message_ids)
        /\ \E q \in Procs \ {p} : procs[q].pc = "running"

\* the messages that are the response built by the call p
Responses(p, msgs) == SelectSeq(msgs, LAMBDA x : x.messageId = ResponseId(p))

\* C9: when dispatch raised before process_message built its response, no
\* response for that message is in any conversation or in the message list,
\* and the message id is still in the pending list.
C9_RaisedStaysPending ==
    \A p \in Procs :
        procs[p].pc = "raised" =>
            /\ Responses(p, messages) = <<>>
            /\ \A i \in 1..Len(conversations) :
                  Responses(p, conversations[i].messages) = <<>>
            /\ Truthy(procs[p].message.messageId) =>
                  procs[p].message.messageId \in Range(pending_message_ids)

\* C9 witness: the call for message u1 raised after one event of the runner,
\* its id is pending, and the other call has returned with its response
C9_Witness ==
    /\ procs["p1"].pc = "raised"
    /\ procs["p1"].final_event # NoAdkEvent
    /\ "u1" \in Range(pending_message_ids)
    /\ procs["p2"].pc = "returned"
    /\ Responses("p2", messages) # <<>>

(***************************************************************************)
(* Properties of cancel (SpecCancel).                                      *)
(***************************************************************************)

\* C10: every cancel call of every executor reports an unsupported operation.
C10_CancelAlwaysUnsupported ==
    \A x \in Executors, t \in TaskIds :
        cancels[<<x, t>>] # "not called" => cancels[<<x, t>>] = Unsupported

(***************************************************************************)
(* Properties of send_message's answers (SpecStream).                      *)
(***************************************************************************)

\* the step delivers an error response to the call of agent c
ReceivesError(c) ==
    /\ trace' = Append(trace, Last(trace'))
    /\ Last(trace').op = "error"
    /\ Last(trace').conn = c

\* C11: on an error response, streaming or not, send_message returns a message
\* of role agent whose text is the error's text (empty when the error has
\* none), the callback is not invoked (nothing is logged) and the registry,
\* the scratch buffer and the message map stay as they were.
C11_ErrorBecomesAgentMessage ==
    [][\A c \in Agents :
          ReceivesError(c) =>
             LET error_message == Last(trace').event.message
             IN  /\ conns'[c].pc = "returned"
                 /\ conns'[c].result =
                       MessageResult("agent",
                                     IF error_message = NoMessage THEN ""
                                     ELSE error_message)
                 /\ tasks' = tasks
                 /\ artifact_chunks' = artifact_chunks
                 /\ heap' = heap
                 /\ events' = events
                 /\ task_map' = task_map]_vars

\* C11 witness: the streaming call of agent A got an error with a text after
\* its task was set to working; the task is still working and the call has
\* returned the text
C11_Witness ==
    /\ Len(trace) >= 2
    /\ Last(trace).op = "error"
    /\ Last(trace).conn = "A"
    /\ Last(trace).event.message = "boom"
    /\ conns["A"].streaming
    /\ conns["A"].result = MessageResult("agent", "boom")
    /\ HasTask("T1")
    /\ TaskOf("T1").state = "working"

(***************************************************************************)
(* Properties of HostAgent.send_message (SpecDispatch).                    *)
(***************************************************************************)

\* the step ends the call of agent c with a Task as the response
ReturnsTask(c) ==
    /\ conns[c].pc = "open"
    /\ conns'[c].pc = "returned"
    /\ conns'[c].result.kind = "task"

\* the history of the task of that id in the registry, <<>> without the task
HistoryOf(tsks, id) ==
    IF \E i \in 1..Len(tsks) : tsks[i].id = id
    THEN current_task(tsks, id).history
    ELSE <<>>

IsPrefix(s, t) == Len(s) <= Len(t) /\ SubSeq(t, 1, Len(s)) = s

\* C12: when the call ends with a Task that the remote agent reported failed
\* or canceled, HostAgent.send_message raises instead of returning, and the
\* registry holds the task in the reported state with at least the history it
\* had before.
C12_FailureIsRaised ==
    [][\A c \in Agents :
          (ReturnsTask(c) /\ Last(trace').conn = c
             /\ Last(trace').op \in {"update", "result"}
             /\ Last(trace').event.state \in {"failed", "canceled"}) =>
                LET id == conns'[c].result.taskId
                IN  /\ conns'[c].tool_context.outcome = "ValueError"
                    /\ \E i \in 1..Len(tasks') : tasks'[i].id = id
                    /\ current_task(tasks', id).state = Last(trace').event.state
                    /\ IsPrefix(HistoryOf(tasks, id), HistoryOf(tasks', id))]_vars

\* C12 witness: the task of agent A was working with a status message, then
\* reported canceled; the call raised and the registry has the task canceled
\* with both messages in its history
C12_Witness ==
    /\ conns["A"].tool_context.outcome = "ValueError"
    /\ HasTask("T1")
    /\ TaskOf("T1").state = "canceled"
    /\ TaskOf("T1").history = <<"m1", "m2">>

(***************************************************************************)
(* Properties of a whole turn (SpecTurn).                                  *)
(***************************************************************************)

\* the step delivers a Message as the single response of the non-streaming
\* call of agent c
ReceivesSingleMessage(c) ==
    /\ Len(trace') = Len(trace) + 1
    /\ trace' = Append(trace, Last(trace'))
    /\ Last(trace').op = "message"
    /\ Last(trace').conn = c
    /\ ~conns[c].streaming

\* the call p of process_message ends, after a final event with content, a
\* turn in which a non-streaming call was answered with a Message
FinishesAfterSingleMessage(p) ==
    /\ FinishesWithContent(p)
    /\ \E c \in Agents :
          /\ conns[c].caller = p
          /\ ~conns[c].streaming
          /\ conns[c].result.kind = "message"

\* C13: a non-streaming call answered with a Message returns that Message
\* without the callback being invoked (registry, scratch buffer, event log and
\* message map unchanged), and when the turn then ends with the runner's final
\* content, the conversation receives the response message.
C13_SingleMessage ==
    [][/\ \A c \in Agents :
            ReceivesSingleMessage(c) =>
                /\ conns'[c].pc = "returned"
                /\ conns'[c].result = MessageResult("agent", "reply")
                /\ conns'[c].tool_context.outcome = "returned message"
                /\ tasks' = tasks
                /\ artifact_chunks' = artifact_chunks
                /\ heap' = heap
                /\ events' = events
                /\ task_map' = task_map
       /\ \A p \in TurnProcs :
            FinishesAfterSingleMessage(p) =>
                /\ Last(messages').messageId = ResponseId(p)
                /\ Last(messages').role = "agent"
                /\ conversations' =
                      [conversations EXCEPT
                          ![procs[p].conversation].messages = Append(@, Last(messages'))]
                /\ conversations[procs[p].conversation].conversation_id
                      = TurnContext(p)]_vars

\* C13 witness: the turn of message u1 has ended; the only remote call was
\* non-streaming and returned a Message, the registry and the scratch buffer
\* are empty, and conversation C1 holds the inbound message and the response
C13_Witness ==
    /\ procs["p1"].pc = "returned"
    /\ \E c \in Agents :
          /\ conns[c].caller = "p1"
          /\ ~conns[c].streaming
          /\ conns[c].result = MessageResult("agent", "reply")
    /\ \A c \in Agents : conns[c].result.kind \in {"none", "message"}
    /\ tasks = <<>>
    /\ artifact_chunks = EmptyFun
    /\ Len(conversations[1].messages) = 2
    /\ conversations[1].messages[2].messageId = ResponseId("p1")

(***************************************************************************)
(* Properties of interleaved calls (SpecStream).                           *)
(***************************************************************************)

\* the update events the call of agent c has received so far, in arrival order
Delivered(c) ==
    LET S == SelectSeq(trace, LAMBDA x : x.conn = c /\ x.op \in {"update", "result"})
    IN  [i \in 1..Len(S) |-> S[i].event]

\* what the log holds of one application of the event e
LogContent(e) ==
    IF e.kind = "artifact-update"
    THEN [messageId |-> "uuid", taskId |-> e.taskId, parts |-> e.parts, text |-> ""]
    ELSE IF e.message # NoMessage
    THEN [messageId |-> e.message, taskId |-> e.taskId, parts |-> <<>>, text |-> ""]
    ELSE [messageId |-> "uuid", taskId |-> e.taskId, parts |-> <<>>, text |-> e.state]

\* the applications the log records for agent c, in the log's order
Applied(c) ==
    LET S == SelectSeq(events, LAMBDA x : x.actor = c)
    IN  [i \in 1..Len(S) |-> S[i].content]

\* L lists the events of D in D's order, each at least once and with its
\* repetitions next to each other
RECURSIVE InOrderOf(_, _)
InOrderOf(L, D) ==
    IF D = <<>> THEN L = <<>>
    ELSE /\ L # <<>>
         /\ Head(L) = LogContent(Head(D))
         /\ \/ InOrderOf(Tail(L), Tail(D))
            \/ InOrderOf(Tail(L), D)

\* the status the events of D leave in their task: that of the last status
\* update or Task among them, submitted when there is none
RECURSIVE StateAfter(_)
StateAfter(D) ==
    IF D = <<>> THEN "submitted"
    ELSE IF Last(D).kind \in {"status-update", "task"} THEN Last(D).state
    ELSE StateAfter(Front(D))

\* the events of D that task_callback applied without raising
AppliedWhole(c) ==
    LET S == SelectSeq(trace, LAMBDA x : x.conn = c /\ x.op \in {"update", "result"}
                                         /\ x.raised = "")
    IN  [i \in 1..Len(S) |-> S[i].event]

\* C14: however the streams of the two calls interleave, the applications that
\* the log records for each call are the events of that call's own stream in
\* arrival order, and the task of each call is in the state that its own
\* stream's events, applied in arrival order, leave it in.
C14_PerTaskOrder ==
    \A c \in Agents :
        /\ InOrderOf(Applied(c), Delivered(c))
        /\ AppliedWhole(c) # <<>> =>
              /\ HasTask(TaskFor(c))
              /\ TaskOf(TaskFor(c)).state = StateAfter(AppliedWhole(c))

\* C14 witness: agent A streamed working, then agent B streamed working, then
\* agent A streamed completed; T1 is completed and T2 working
C14_Witness ==
    /\ Len(trace) = 3
    /\ trace[1].conn = "A" /\ trace[2].conn = "B" /\ trace[3].conn = "A"
    /\ \A i \in 1..3 : trace[i].op = "update" /\ trace[i].raised = ""
    /\ trace[1].event.state = "working"
    /\ trace[3].event.state = "completed"
    /\ HasTask("T1") /\ TaskOf("T1").state = "completed"
    /\ HasTask("T2") /\ TaskOf("T2").state = "working"
    /\ Len(Applied("A")) >= 2

(***************************************************************************)
(* Properties of the content conversions (SpecRoundTrip).                  *)
(***************************************************************************)

\* C15: converting a message with adk_content_from_message and the result
\* back with adk_content_to_message gives a message of the same role with the
\* same parts: same number, and the same variant and payload at every
\* position.
C15_RoundTrip ==
    Len(trace) = 2 =>
        /\ trace[2].raised = ""
        /\ trace[2].result.role = messages[1].role
        /\ Len(trace[2].result.parts) = Len(messages[1].parts)
        /\ \A i \in 1..Len(messages[1].parts) :
              /\ trace[2].result.parts[i].kind = messages[1].parts[i].kind
              /\ trace[2].result.parts[i].value = messages[1].parts[i].value
              /\ trace[2].result.parts[i].mime = messages[1].parts[i].mime

(***************************************************************************)
(* Properties of the event log (SpecEvents).                               *)
(***************************************************************************)

\* the position in the history of the first and of the last add_event of an id
FirstAdd(id) == CHOOSE i \in 1..Len(trace) :
                    trace[i].event.id = id /\ \A j \in 1..(i - 1) : trace[j].event.id # id

LastAdd(id) == CHOOSE i \in 1..Len(trace) :
                   trace[i].event.id = id /\ \A j \in (i + 1)..Len(trace) : trace[j].event.id # id

\* the read model holds each id that was added exactly once, with the event
\* of the last add_event of that id, in ascending order of timestamp
OncePerIdSortedLastWins(E) ==
    /\ {E[i].id : i \in 1..Len(E)} = {trace[i].event.id : i \in 1..Len(trace)}
    /\ \A i, j \in 1..Len(E) : E[i].id = E[j].id => i = j
    /\ \A i \in 1..Len(E) : E[i] = trace[LastAdd(E[i].id)].event
    /\ \A i, j \in 1..Len(E) : i < j => E[i].timestamp <= E[j].timestamp

\* C16 as stated: once per id, sorted by timestamp, last write wins, and
\* events of equal timestamp in the order in which they were added (the
\* stored event of an id is the one its last add_event added).
C16_EventsReadModel ==
    LET E == events_property(events)
    IN  /\ OncePerIdSortedLastWins(E)
        /\ \A i, j \in 1..Len(E) :
              (i < j /\ E[i].timestamp = E[j].timestamp) =>
                  LastAdd(E[i].id) < LastAdd(E[j].id)

\* C16 amended: once per id, sorted by timestamp, last write wins, and events
\* of equal timestamp in the order in which their ids were first added: an
\* event that replaces another takes its place in the log.
C16_EventsReadModelAmended ==
    LET E == events_property(events)
    IN  /\ OncePerIdSortedLastWins(E)
        /\ \A i, j \in 1..Len(E) :
              (i < j /\ E[i].timestamp = E[j].timestamp) =>
                  FirstAdd(E[i].id) < FirstAdd(E[j].id)

\* C16 witness: e1 was added, then e2, then e1 again with another content and
\* timestamp; the read model shows the two of them with the same timestamp,
\* the replacement of e1 first
C16_Witness ==
    /\ Len(trace) = 3
    /\ trace[1].event.id = "e1" /\ trace[2].event.id = "e2" /\ trace[3].event.id = "e1"
    /\ trace[1].event.timestamp = 2 /\ trace[3].event.timestamp = 1
    /\ trace[3].event.content # trace[1].event.content
    /\ events_property(events) = <<trace[3].event, trace[2].event>>
    /\ trace[2].event.timestamp = 1

(***************************************************************************)
(* Properties of the escalation (SpecDispatch).                            *)
(***************************************************************************)

\* the state of the Task that the call of agent c returns in this step
ReturnedState(c) == current_task(tasks', conns'[c].result.taskId).state

\* C17: when the call ends with a Task in state input-required,
\* HostAgent.send_message sets escalate and skip_summarization, returns
\* without raising and leaves the session active; when the Task is completed
\* or working it returns without signalling escalation.
C17_EscalatesOnInputRequired ==
    [][\A c \in Agents :
          ReturnsTask(c) =>
             LET tool_context == conns'[c].tool_context
             IN  /\ ReturnedState(c) = "input-required" =>
                       /\ tool_context.escalate
                       /\ tool_context.skip_summarization
                       /\ tool_context.outcome = "returned text"
                       /\ tool_context.session_active
                 /\ ReturnedState(c) \in {"completed", "working"} =>
                       /\ ~tool_context.escalate
                       /\ ~tool_context.skip_summarization
                       /\ tool_context.outcome = "returned text"]_vars

\* C17 witness: the task of agent A was working and then asked for input; the
\* call returned with the escalation set and the session active, while the
\* call of agent B returned a working task without escalation
C17_Witness ==
    /\ conns["A"].pc = "returned"
    /\ conns["A"].streaming
    /\ conns["A"].tool_context.escalate
    /\ conns["A"].tool_context.session_active
    /\ conns["A"].tool_context.outcome = "returned text"
    /\ TaskOf("T1").state = "input-required"
    /\ conns["B"].pc = "returned"
    /\ conns["B"].result.kind = "task"
    /\ TaskOf("T2").state = "working"
    /\ ~conns["B"].tool_context.escalate

(***************************************************************************)
(* Properties of the streaming loop (SpecStream).                          *)
(***************************************************************************)

\* C18: on a streaming call every update event received is applied and logged
\* exactly once, in arrival order: the log entries of the agent are the
\* received events, one entry each.
C18_AppliedExactlyOnce ==
    \A c \in Agents :
        conns[c].streaming =>
            Applied(c) = [i \in 1..Len(Delivered(c)) |-> LogContent(Delivered(c)[i])]

\* the streaming call of agent c has received a Message, an error response or
\* a status update with final=true
Closed(c) ==
    \E i \in 1..Len(trace) :
        /\ trace[i].conn = c
        /\ \/ trace[i].op \in {"message", "error"}
           \/ /\ trace[i].op = "update"
              /\ trace[i].event.kind = "status-update"
              /\ trace[i].event.final

\* the step delivers to the call of agent c a status update with final=true
ReceivesFinal(c) ==
    /\ Len(trace') = Len(trace) + 1
    /\ Last(trace').conn = c
    /\ Last(trace').op = "update"
    /\ Last(trace').event.kind = "status-update"
    /\ Last(trace').event.final

\* C19: once a streaming call has received a Message, an error response or a
\* final status update, no later event of its stream is received, applied or
\* logged, and what the call returned stays; the step that receives the final
\* status update returns the task, which is in the final event's state.
C19_NothingAfterFinal ==
    [][\A c \in Agents :
          /\ (conns[c].streaming /\ Closed(c)) =>
                /\ Len(trace') > Len(trace) => Last(trace').conn # c
                /\ Applied(c)' = Applied(c)
                /\ conns'[c] = conns[c]
          /\ (conns[c].streaming /\ ReceivesFinal(c)) =>
                /\ conns'[c].pc = "returned"
                /\ conns'[c].result = TaskResult(Last(trace').event.taskId)
                /\ current_task(tasks', Last(trace').event.taskId).state
                      = Last(trace').event.state]_vars

\* C19 witness: the call of agent A returned on a final status update, and
\* agent B's stream went on after that
C19_Witness ==
    /\ Len(trace) = 3
    /\ trace[1].conn = "A" /\ trace[1].op = "update"
    /\ trace[1].event.kind = "status-update" /\ trace[1].event.final
    /\ trace[2].conn = "B" /\ trace[3].conn = "B"
    /\ conns["A"].pc = "returned"
    /\ conns["A"].result = TaskResult("T1")
    /\ TaskOf("T1").state = trace[1].event.state
    /\ Len(Applied("B")) >= 2

(***************************************************************************)
(* Properties of the scratch buffer (SpecArtifact).                        *)
(***************************************************************************)

\* the fragments the scratch buffer holds for the artifact id a
FragmentsOf(chunks, a) == IF a \in DOMAIN chunks THEN chunks[a] ELSE <<>>

\* C20: a first fragment or an intermediate append chunk (last_chunk=false)
\* leaves every task's finished artifact list unchanged; the append chunk with
\* last_chunk=true adds the artifact to its task's finished list, and after it
\* no fragment for that artifact id remains in the scratch buffer.
C20_FinishedOnlyAfterLastChunk ==
    [][\A e \in ArtifactEvents(Len(trace) + 1) :
          (AppliesArtifact(e) /\ Last(trace').raised = "") =>
             /\ (FirstFragment(e) \/ MiddleFragment(e)) =>
                   \A t \in TaskIds :
                       Finished(tasks', heap', t) = Finished(tasks, heap, t)
             /\ LastFragment(e) =>
                   /\ Len(Finished(tasks', heap', e.taskId))
                         = Len(Finished(tasks, heap, e.taskId)) + 1
                   /\ Last(Finished(tasks', heap', e.taskId)).artifactId = e.artifactId
                   /\ FragmentsOf(artifact_chunks', e.artifactId) = <<>>]_vars

(***************************************************************************)
(* Properties of the task registry (SpecRegistry).                         *)
(***************************************************************************)

\* the ids of the registry's tasks, in the registry's order
IdsOf(tsks) == [i \in 1..Len(tsks) |-> tsks[i].id]

\* the task ids of the events given to task_callback so far, in order
IdsSeen == [i \in 1..Len(trace) |-> trace[i].event.taskId]

\* the ids of the sequence s, each once, in the order of their first occurrence
FirstOccurrences(s) ==
    LET keep == {i \in 1..Len(s) : \A j \in 1..(i - 1) : s[j] # s[i]}
        nth[k \in 0..Cardinality(keep)] ==
            IF k = 0 THEN 0
            ELSE CHOOSE i \in keep : i > nth[k - 1]
                                     /\ \A j \in keep : j > nth[k - 1] => i <= j
    IN  [k \in 1..Cardinality(keep) |-> s[nth[k]]]

\* the step gives the event e to task_callback
Applies(e) ==
    /\ Len(trace') = Len(trace) + 1
    /\ Last(trace').op = "task_callback"
    /\ Last(trace').event = e

\* C21: after any sequence of task_callback calls the registry holds one task
\* per task id seen, in the order in which the ids were first seen (so none was
\* removed); an event for an unseen id adds exactly one task, with the event's
\* context id and, when nothing else is recorded by the event, in state
\* submitted; an event for a known id adds none and leaves every other task
\* as it was.
C21_OneTaskPerId ==
    /\ [](IdsOf(tasks) = FirstOccurrences(IdsSeen))
    /\ [][\A e \in RegistryEvents(Len(trace) + 1) :
             Applies(e) =>
                IF e.taskId \in Range(IdsOf(tasks))
                THEN /\ IdsOf(tasks') = IdsOf(tasks)
                     /\ \A i \in 1..Len(tasks) :
                           tasks[i].id # e.taskId => tasks'[i] = tasks[i]
                ELSE /\ Front(tasks') = tasks
                     /\ Last(tasks').id = e.taskId
                     /\ Last(tasks').contextId = e.contextId
                     /\ e.kind = "artifact-update" =>
                           /\ Last(tasks').state = "submitted"
                           /\ Last(tasks').history = <<>>]_vars

\* C21 witness: the second task id seen came first, a fragment and a status
\* update of the first one followed, and a later event met the known id
C21_Witness ==
    /\ Len(trace) = 3
    /\ IdsSeen = <<"T2", "T1", "T2">>
    /\ trace[1].event.kind = "artifact-update"
    /\ trace[3].event.kind = "task"
    /\ IdsOf(tasks) = <<"T2", "T1">>

(***************************************************************************)
(* Properties of a task's history (SpecStatus).                             *)
(***************************************************************************)

\* C22: driven by status updates, no task's history ever holds two messages
\* of the same message id, whatever the order and repetition of the events.
C22_HistoryHasNoDuplicate ==
    \A t \in 1..Len(tasks) :
        \A i, j \in 1..Len(tasks[t].history) :
            tasks[t].history[i] = tasks[t].history[j] => i = j

\* C22 witness: the message id of the first status update came again after
\* another message had been recorded
C22_Witness ==
    /\ Len(trace) = 3
    /\ \A k \in 1..3 : trace[k].event.kind = "status-update" /\ trace[k].event.taskId = "T1"
    /\ trace[1].event.message = "m1"
    /\ trace[2].event.message = "m2"
    /\ trace[3].event.message = "m1"
    /\ TaskOf("T1").history = <<"m1", "m2">>

(***************************************************************************)
(* Properties of the dispatch requests of a turn (SpecTurn).               *)
(***************************************************************************)

\* the ids that process_message merged into the session state for the inbound
\* message of the call p
MergedIds(p) ==
    Request(procs[p].message.messageId, procs[p].context_id, procs[p].message.taskId)

\* C23: every dispatch request built while the inbound message M is processed
\* carries M's message id, context id and task id as process_message merged
\* them into the session state, also when the turn dispatches to more than one
\* agent.
C23_RequestCarriesInboundIds ==
    \A c \in DOMAIN conns :
        conns[c].caller # "" => conns[c].request = MergedIds(conns[c].caller)

\* the step is the start of the call p of process_message for a message whose
\* context id (or the fresh one drawn for it) has no session
StartsWithoutSession(p) ==
    /\ procs[p].pc = "idle"
    /\ procs'[p].pc # "idle"
    /\ procs'[p].context_id \notin DOMAIN sessions

\* C24: without a session for the inbound message's context id (the fresh one
\* included), process_message returns at once without raising; no remote
\* agent is called for it and no response message is produced, then or later.
C24_NoSessionDropsMessage ==
    [][\A p \in TurnProcs :
          /\ StartsWithoutSession(p) => procs'[p].pc = "dropped"
          /\ procs'[p].pc = "dropped" =>
                /\ \A c \in Agents : conns'[c].caller # p
                /\ Responses(p, messages') = <<>>
                /\ \A i \in 1..Len(conversations') :
                      Responses(p, conversations'[i].messages) = <<>>
                /\ sessions' = sessions
          /\ procs[p].pc = "dropped" => procs'[p] = procs[p]]_vars

\* C24 witness: a message without context id was dropped while a remote agent
\* stood ready
C24_Witness ==
    /\ procs["p1"].pc = "dropped"
    /\ procs["p1"].message.contextId = NoContext
    /\ procs["p1"].context_id = "fresh"
    /\ \E c \in Agents : conns[c].pc = "idle"
    /\ Len(messages) = 1

(***************************************************************************)
(* Properties of the pending-message list (SpecHost).                      *)
(***************************************************************************)

\* the call p of process_message has returned without raising
ReturnedNormally(p) == procs[p].pc \in {"returned", "dropped"}

\* C28: a call of process_message that has returned normally has not left the
\* id of its message in the pending-message list.
C28_ReturnedIsNotPending ==
    \A p \in Procs :
        (ReturnedNormally(p) /\ Truthy(procs[p].message.messageId)) =>
            procs[p].message.messageId \notin Range(pending_message_ids)

(***************************************************************************)
(* Properties of the executors' execute (SpecExecute).                     *)
(***************************************************************************)

\* the positions of the final status updates in a queue
Finals(queue) ==
    {i \in 1..Len(queue) : queue[i].kind = "status-update" /\ queue[i].final}

\* C25: every execute call that has returned has emitted exactly one status
\* update with final=true, and that update is the last event it emitted.
C25_ExactlyOneFinalAndLast ==
    \A x \in DOMAIN procs :
        procs[x].pc = "returned" => Finals(procs[x].queue) = {Len(procs[x].queue)}

(***************************************************************************)
(* Properties of the agent registration (SpecRegister).                    *)
(***************************************************************************)

\* the card of the most recent registration for that name
LatestCard(name) ==
    LET S == SelectSeq(trace, LAMBDA x : x.op = "register_agent" /\ x.event.name = name)
    IN  Last(S).event

RegisteredNames == {trace[i].event.name : i \in 1..Len(trace)}

\* C26: after any sequence of registrations the host holds, for every agent
\* name, exactly one descriptor in its agent list, one card and one
\* connection, and they are those of the most recent registration for the
\* name.
C26_OneDescriptorPerName ==
    \A name \in RegisteredNames :
        /\ Cardinality({i \in 1..Len(agents) : agents[i].name = name}) = 1
        /\ \A i \in 1..Len(agents) : agents[i].name = name => agents[i] = LatestCard(name)
        /\ host_agent.cards[name] = LatestCard(name)
        /\ host_agent.remote_agent_connections[name] = RemoteAgentConnections(LatestCard(name))

(***************************************************************************)
(* Properties of the reassembly for interleaved tasks (SpecArtifact).      *)
(***************************************************************************)

\* the index of the latest first fragment of e's task and artifact id, 0
\* when the task has sent none
OwnFirst(e) ==
    LET K == {k \in 1..Len(trace) :
                 FirstFragment(trace[k].event) /\ SameArtifact(e, trace[k].event)}
    IN  IF K = {} THEN 0 ELSE CHOOSE k \in K : \A j \in K : j <= k

\* the fragments of e's task and artifact id applied from its latest first
\* fragment on
OwnFragments(e) ==
    SelectSeq(SubSeq(trace, OwnFirst(e), Len(trace)),
              LAMBDA x : SameArtifact(e, x.event))

\* e's task has sent a first fragment of e's artifact id and, since then,
\* for that artifact id only chunks that continue it, all of them applied
OwnChain(e) ==
    /\ OwnFirst(e) # 0
    /\ \A k \in (OwnFirst(e) + 1)..Len(trace) :
          SameArtifact(e, trace[k].event) =>
              MiddleFragment(trace[k].event) /\ trace[k].raised = ""

\* the parts of the events of S, in order
RECURSIVE PartsIn(_)
PartsIn(S) == IF S = <<>> THEN <<>> ELSE PartsIn(Front(S)) \o Last(S).event.parts

\* C27: when the last chunk of a task's chunked artifact is applied, the
\* artifact added to that task holds exactly the parts of that task's own
\* fragments, in arrival order, whatever events of another task came in
\* between and whatever artifact ids the two tasks use.
C27_OwnPartsOnly ==
    [][\A e \in ArtifactEvents(Len(trace) + 1) :
          (AppliesArtifact(e) /\ LastFragment(e) /\ OwnChain(e)) =>
             /\ Last(trace').raised = ""
             /\ Finished(tasks', heap', e.taskId) # <<>>
             /\ Last(Finished(tasks', heap', e.taskId)).parts
                   = PartsIn(OwnFragments(e)) \o e.parts]_vars

(***************************************************************************)
(* Properties of get_pending_messages (SpecPending).                       *)
(***************************************************************************)

\* C29: get_pending_messages returns exactly one entry for every message id
\* of the pending list, whatever the task mapped to that id looks like.
C29_OneEntryPerPendingId ==
    \A k \in 1..Len(trace) :
        trace[k].op = "get_pending_messages" =>
            /\ Len(trace[k].result) = Len(trace[k].event)
            /\ \A i \in 1..Len(trace[k].event) :
                  Cardinality({j \in 1..Len(trace[k].result) :
                                  trace[k].result[j][1] = trace[k].event[i]}) = 1

(***************************************************************************)
(* The frame of task_callback (SpecRegistry).                              *)
(***************************************************************************)

\* the status and the history of each task of the registry, by position
StatusAndHistory(tsks) ==
    [i \in 1..Len(tsks) |->
        [id |-> tsks[i].id, state |-> tsks[i].state, message |-> tsks[i].message,
         history |-> tsks[i].history]]

\* C30: an ArtifactUpdate given to task_callback leaves the status and the
\* history of every task that was in the registry as they were (whether the
\* call returns or raises), so an artifact that arrives after a terminal
\* state does not alter the state; a StatusUpdate leaves every task's
\* finished artifact list and the scratch buffer as they were.
C30_FrameOfTaskCallback ==
    [][\A e \in RegistryEvents(Len(trace) + 1) :
          Applies(e) =>
             /\ e.kind = "artifact-update" =>
                   SubSeq(StatusAndHistory(tasks'), 1, Len(tasks))
                      = StatusAndHistory(tasks)
             /\ e.kind = "status-update" =>
                   /\ \A t \in TaskIds :
                         Finished(tasks', heap', t) = Finished(tasks, heap, t)
                   /\ ChunksByValue(artifact_chunks', heap')
                         = ChunksByValue(artifact_chunks, heap)]_vars

\* C30 witness: a first fragment of T1 was stashed, T1 was then completed by
\* a status update with a message, and a whole artifact arrived afterwards:
\* the task is still completed with that history, holds the artifact, and the
\* fragment is still in the scratch buffer
C30_Witness ==
    /\ Len(trace) = 3
    /\ trace[1].event = ArtifactUpdate("T1", "C1", "Art1", PartsOf(1), FALSE, "False")
    /\ trace[2].event = StatusUpdate("T1", "C1", "completed", "m1", TRUE)
    /\ trace[3].event = ArtifactUpdate("T1", "C1", "Art1", PartsOf(3), FALSE, "None")
    /\ TaskOf("T1").state = "completed"
    /\ TaskOf("T1").history = <<"m1">>
    /\ Finished(tasks, heap, "T1") = <<[artifactId |-> "Art1", parts |-> PartsOf(3)]>>
    /\ ChunksByValue(artifact_chunks, heap)["Art1"]
          = <<[artifactId |-> "Art1", parts |-> PartsOf(1)]>>

====
